---- MODULE Spec2Model ----
(***************************************************************************)
(* A model of the scoring, target-pricing and backtesting engine of        *)
(* Finemg (src/analytics) and of its settings store (src/database).        *)
(*                                                                         *)
(* Numbers.  The Python code computes on floats.  The model computes on    *)
(* exact rationals <<n, d>> (d > 0, lowest terms) and rounds where the     *)
(* code calls round(): a rounded result is kept as the integer count of    *)
(* its last decimal (round(x, 4) as ten-thousandths, round(x, 2) as        *)
(* hundredths, round(x, 1) as tenths).  round() works on the binary float  *)
(* the code computed, which is not the decimal: when the exact value is a  *)
(* decimal tie (0.995 to 2 decimals) the float sits just below it, just    *)
(* above it or on it, and round() gives 0.99 or 1.0 accordingly.  Which    *)
(* one depends on the rounding errors of the float computation, which the  *)
(* exact arithmetic does not follow: the model leaves it open, every       *)
(* rounding taking its side on its own (two ties of one run can fall on    *)
(* different sides).  A function that rounds takes the side as its last    *)
(* parameter; run_backtest and compute_scores take one for each of their   *)
(* roundings.                                                              *)
(***************************************************************************)
EXTENDS Integers, Sequences, FiniteSets, TLC

VARIABLES
    \* ---- run_backtest (src/analytics/backtester.py) ----
    data,            \* get_batch's result: ticker -> [hasClose, close]
    params,          \* the arguments of run_backtest
    cutoff,          \* first date kept by the lookback filter
    pc,              \* position in run_backtest
    closes,          \* ticker -> close series (date -> price)
    tickerOrder,     \* the iteration order of the dict `closes`
    dates,           \* the retained common dates, ascending
    ci,              \* start index of the current cycle
    ti,              \* index in tickerOrder of the next ticker of the cycle
    trade_log,
    cumulative_pnl,  \* hundredths of a euro
    equity_points,
    result,          \* what run_backtest returns
    \* ---- the pure functions (targets.py, confidence.py, recommender.py) ----
    fn,              \* the function called
    args,            \* its arguments
    ret,             \* [raised, value]: "pending" before the call, then what
                     \* the call returned or raised
    \* ---- the settings store (src/database/db.py) ----
    settings,        \* the settings table of finemg.db
    db_calls,        \* the calls made on the store so far, in the order they
                     \* took effect, with their results
    \* ---- float arithmetic ----
    half             \* the neighbour the round() of the function called gives
                     \* for an exact decimal tie

vars == <<data, params, cutoff, pc, closes, tickerOrder, dates, ci, ti,
          trade_log, cumulative_pnl, equity_points, result, fn, args, ret,
          settings, db_calls, half>>

dbVars == <<settings, db_calls>>

btVars == <<data, params, cutoff, pc, closes, tickerOrder, dates, ci, ti,
            trade_log, cumulative_pnl, equity_points, result>>

fnVars == <<fn, args, ret>>

(***************************************************************************)
(* Exact rational arithmetic standing for Python's float arithmetic.       *)
(***************************************************************************)
RECURSIVE GCD(_, _)
GCD(a, b) == IF b = 0 THEN a ELSE GCD(b, a % b)

Abs(x) == IF x < 0 THEN -x ELSE x

\* n / d in lowest terms with a positive denominator (d # 0).
Rat(n, d) ==
    LET g == GCD(Abs(n), Abs(d))
        s == IF d < 0 THEN -1 ELSE 1
    IN  <<(s * n) \div g, (s * d) \div g>>

RInt(k) == <<k, 1>>

RAdd(x, y) ==
    LET g == GCD(x[2], y[2])
    IN  Rat(x[1] * (y[2] \div g) + y[1] * (x[2] \div g), (x[2] \div g) * y[2])

RNeg(x) == <<-x[1], x[2]>>

RSub(x, y) == RAdd(x, RNeg(y))

RMul(x, y) ==
    LET g1 == GCD(Abs(x[1]), y[2])
        g2 == GCD(Abs(y[1]), x[2])
    IN  Rat((x[1] \div g1) * (y[1] \div g2), (x[2] \div g2) * (y[2] \div g1))

\* x / y for y # 0.
RDiv(x, y) == RMul(x, Rat(y[2], y[1]))

RLt(x, y) == RSub(x, y)[1] < 0

RLe(x, y) == RSub(x, y)[1] <= 0

RECURSIVE Pow10(_)
Pow10(k) == IF k = 0 THEN 1 ELSE 10 * Pow10(k - 1)

\* The sides a decimal tie can fall on: the float the code rounds is below
\* the tie ("down": round() gives the lower neighbour) or above it ("up").
\* A float that sits on the tie goes to the even neighbour, one of the two.
Halves == {"down", "up"}

\* The integer round() gives for n / d (d > 0): the nearest one, and for a
\* tie the neighbour on the side h.  \div is the floor division and % its
\* remainder.
RoundToward(n, d, h) ==
    LET q == n \div d
        r == n % d
    IN  IF 2 * r < d THEN q
        ELSE IF 2 * r > d THEN q + 1
        ELSE IF h = "down" THEN q ELSE q + 1

\* Long division: <<q, r>> with n / d = (q + r / d) / 10^k, for n = acc + rest / d
\* taken digit by digit, so that no intermediate product leaves the integers
\* of the model checker.
RECURSIVE LongDiv(_, _, _, _)
LongDiv(acc, rest, d, k) ==
    IF k = 0 THEN <<acc, rest>>
    ELSE LongDiv(acc * 10 + (rest * 10) \div d, (rest * 10) % d, d, k - 1)

\* round(x, k) as an integer count of 10^-k when the ties fall on the
\* side h.
RoundSide(x, k, h) ==
    LET qr == LongDiv(x[1] \div x[2], x[1] % x[2], x[2], k)
    IN  IF 2 * qr[2] < x[2] THEN qr[1]
        ELSE IF 2 * qr[2] > x[2] THEN qr[1] + 1
        ELSE IF h = "down" THEN qr[1] ELSE qr[1] + 1

\* What round(x, k) can give, as integer counts of 10^-k: one value, or
\* the two neighbours of a tie.
Rounds(x, k) == {RoundSide(x, k, h) : h \in Halves}

(***************************************************************************)
(* src/analytics/targets.py                                                *)
(***************************************************************************)
\* The default of the parameter pct_fee of compute_target and of
\* compute_net_gain: 0.005.  run_backtest never passes another value.
DefaultPctFee == Rat(5, 1000)

\* fee_mode: "flat", or anything else for the percentage mode.
FeeModes == {"flat", "pct"}

Returned(v) == [raised |-> "none", value |-> v]

Raised(e) == [raised |-> e, value |-> 0]

\* A bug compute_target could have: the sell-leg fee of the percentage mode
\* taken on the invested amount instead of the post-gain amount.
compute_target_presell(entry_price, investment_amt, gross_target_pct, flat_fee, pct_fee, fee_mode, h) ==
    LET fee_buy   == IF fee_mode = "flat" THEN flat_fee
                     ELSE RMul(investment_amt, pct_fee)
        fee_sell  == IF fee_mode = "flat" THEN flat_fee
                     ELSE RMul(investment_amt, pct_fee)
    IN  IF entry_price[1] = 0 THEN Raised("ZeroDivisionError")
        ELSE
        LET qty       == RDiv(RSub(investment_amt, fee_buy), entry_price)
            total_out == RAdd(RMul(investment_amt, RAdd(RInt(1), gross_target_pct)), fee_sell)
            target_price == IF qty[1] > 0 THEN RDiv(total_out, qty)
                            ELSE RMul(entry_price, RAdd(RInt(1), gross_target_pct))
        IN  Returned(RoundSide(target_price, 4, h))

\* A bug compute_target could have: the gain taken off the invested amount
\* instead of added to it.
target_price_loss(entry_price, investment_amt, gross_target_pct, flat_fee, pct_fee, fee_mode) ==
    LET fee_buy   == IF fee_mode = "flat" THEN flat_fee
                     ELSE RMul(investment_amt, pct_fee)
        fee_sell  == IF fee_mode = "flat" THEN flat_fee
                     ELSE RMul(RMul(investment_amt, RSub(RInt(1), gross_target_pct)), pct_fee)
        qty       == RDiv(RSub(investment_amt, fee_buy), entry_price)
        total_out == RAdd(RMul(investment_amt, RSub(RInt(1), gross_target_pct)), fee_sell)
    IN  IF qty[1] > 0 THEN RDiv(total_out, qty)
        ELSE RMul(entry_price, RSub(RInt(1), gross_target_pct))

\* A bug compute_target could have: the sell fee charged on every share
\* instead of once on the sale.
target_price_pershare(entry_price, investment_amt, gross_target_pct, flat_fee, pct_fee, fee_mode) ==
    LET fee_buy   == IF fee_mode = "flat" THEN flat_fee
                     ELSE RMul(investment_amt, pct_fee)
        fee_sell  == IF fee_mode = "flat" THEN flat_fee
                     ELSE RMul(RMul(investment_amt, RAdd(RInt(1), gross_target_pct)), pct_fee)
        qty       == RDiv(RSub(investment_amt, fee_buy), entry_price)
        total_out == RMul(investment_amt, RAdd(RInt(1), gross_target_pct))
    IN  IF qty[1] > 0 THEN RAdd(RDiv(total_out, qty), fee_sell)
        ELSE RMul(entry_price, RAdd(RInt(1), gross_target_pct))

\* target_price of compute_target (lines 29-43), before it is rounded, for
\* entry_price # 0.
target_price(entry_price, investment_amt, gross_target_pct, flat_fee, pct_fee, fee_mode) ==
    LET fee_buy   == IF fee_mode = "flat" THEN flat_fee
                     ELSE RMul(investment_amt, pct_fee)
        fee_sell  == IF fee_mode = "flat" THEN flat_fee
                     ELSE RMul(RMul(investment_amt, RAdd(RInt(1), gross_target_pct)), pct_fee)
        qty       == RDiv(RSub(investment_amt, fee_buy), entry_price)
        total_out == RAdd(RMul(investment_amt, RAdd(RInt(1), gross_target_pct)), fee_sell)
    IN  IF qty[1] > 0 THEN RDiv(total_out, qty)
        ELSE RMul(entry_price, RAdd(RInt(1), gross_target_pct))

\* A bug compute_target could have: the sell fee left out of the amount the
\* sale has to bring in.
compute_target_nosellfee(entry_price, investment_amt, gross_target_pct, flat_fee, pct_fee, fee_mode, h) ==
    LET fee_buy   == IF fee_mode = "flat" THEN flat_fee
                     ELSE RMul(investment_amt, pct_fee)
    IN  IF entry_price[1] = 0 THEN Raised("ZeroDivisionError")
        ELSE
        LET qty       == RDiv(RSub(investment_amt, fee_buy), entry_price)
            total_out == RMul(investment_amt, RAdd(RInt(1), gross_target_pct))
            tp        == IF qty[1] > 0 THEN RDiv(total_out, qty)
                         ELSE RMul(entry_price, RAdd(RInt(1), gross_target_pct))
        IN  Returned(RoundSide(tp, 4, h))

\* compute_target: ten-thousandths of a euro, or the exception raised.
\* Python evaluates qty = (investment_amt - fee_buy) / entry_price before it
\* looks at qty: a float division by 0.0 raises ZeroDivisionError.
compute_target(entry_price, investment_amt, gross_target_pct, flat_fee, pct_fee, fee_mode, h) ==
    IF entry_price[1] = 0 THEN Raised("ZeroDivisionError")
    ELSE Returned(RoundSide(target_price(entry_price, investment_amt, gross_target_pct,
                                     flat_fee, pct_fee, fee_mode), 4, h))

\* A bug compute_net_gain could have: the flat fee charged on one leg only.
compute_net_gain_onefee(entry_price, exit_price, qty, flat_fee, fee_mode, pct_fee, h) ==
    LET gross == RMul(RSub(exit_price, entry_price), qty)
        fees  == IF fee_mode = "flat" THEN flat_fee
                 ELSE RAdd(RMul(RMul(entry_price, qty), pct_fee),
                           RMul(RMul(exit_price, qty), pct_fee))
    IN  RoundSide(RSub(gross, fees), 2, h)

\* compute_net_gain: hundredths of a euro.
compute_net_gain(entry_price, exit_price, qty, flat_fee, fee_mode, pct_fee, h) ==
    LET gross == RMul(RSub(exit_price, entry_price), qty)
        fees  == IF fee_mode = "flat" THEN RMul(RInt(2), flat_fee)
                 ELSE RAdd(RMul(RMul(entry_price, qty), pct_fee),
                           RMul(RMul(exit_price, qty), pct_fee))
    IN  RoundSide(RSub(gross, fees), 2, h)

\* compute_breakeven: hundredths of a percent.
compute_breakeven(investment_amt, flat_fee, fee_mode, pct_fee, h) ==
    LET total_fees == IF fee_mode = "flat" THEN RMul(RInt(2), flat_fee)
                      ELSE RMul(RMul(investment_amt, pct_fee), RInt(2))
    IN  IF investment_amt[1] = 0 THEN Raised("ZeroDivisionError")
        ELSE Returned(RoundSide(RMul(RDiv(total_fees, investment_amt), RInt(100)), 2, h))

(***************************************************************************)
(* src/analytics/confidence.py                                             *)
(***************************************************************************)
RECURSIVE ISqrtIn(_, _, _)
ISqrtIn(n, lo, hi) ==
    IF lo >= hi THEN lo
    ELSE LET mid == (lo + hi + 1) \div 2
         IN  IF mid * mid <= n THEN ISqrtIn(n, mid, hi) ELSE ISqrtIn(n, lo, mid - 1)

\* The floor of the square root of n, for 0 <= n < 4 * 10^6 + 1.
ISqrt(n) == ISqrtIn(n, 0, 2001)

\* close.pct_change().dropna(): the daily returns c[i] / c[i-1] - 1.
pct_change(close) ==
    [i \in 1..(Len(close) - 1) |-> RSub(Rat(close[i + 1], close[i]), RInt(1))]

\* returns.iloc[-window:]: the last `window` entries; -0 is 0 in Python, so
\* iloc[-0:] is the whole series.
iloc_last(s, window) ==
    IF window = 0 \/ window >= Len(s) THEN s
    ELSE SubSeq(s, Len(s) - window + 1, Len(s))

\* The sum of s[lo] .. s[hi], by halves.
RECURSIVE RSumRange(_, _, _)
RSumRange(s, lo, hi) ==
    IF lo = hi THEN s[lo]
    ELSE RAdd(RSumRange(s, lo, (lo + hi) \div 2), RSumRange(s, (lo + hi) \div 2 + 1, hi))

RSum(s) == IF s = <<>> THEN RInt(0) ELSE RSumRange(s, 1, Len(s))

\* The sample variance (ddof = 1) of a series of at least two returns:
\* the square of pandas' Series.std().
SampleVar(s) ==
    LET n    == Len(s)
        mean == RDiv(RSum(s), RInt(n))
        dev2 == [i \in 1..n |-> RMul(RSub(s[i], mean), RSub(s[i], mean))]
    IN  RDiv(RSum(dev2), RInt(n - 1))

\* W = (2 * annual_vol)^2 in tenths of a point squared, with
\* annual_vol = std * sqrt(252) * 100: W = (2 * 10)^2 * 252 * 100^2 * var.
VolTerm(var) == RMul(RInt(1008000000), var)

\* round(max(0.0, 100.0 - 2 * annual_vol), 1) in tenths, from W: the integer
\* nearest to 1000 - sqrt(W), found by integer square roots.
ScoreTenths(W, h) ==
    IF RLe(RInt(1000000), W) THEN 0
    ELSE LET w4    == RMul(RInt(4), W)
             f     == w4[1] \div w4[2]
             r     == ISqrt(f)                 \* floor(2 * sqrt(W))
             exact == w4[2] = 1 /\ r * r = f   \* 2 * sqrt(W) is an integer
             u     == IF exact THEN 2000 - r ELSE 2000 - r - 1
                                               \* floor(2 * (1000 - sqrt(W)))
         IN  IF exact THEN RoundToward(u, 2, h) ELSE (u + 1) \div 2

\* A bug compute_confidence could have: the volatility not doubled.
compute_confidence_single(close, window, h) ==
    IF close.none \/ Len(close.values) < window + 1 THEN 500
    ELSE LET returns == iloc_last(pct_change(close.values), window)
         IN  IF Len(returns) < 2 THEN 0
             ELSE ScoreTenths(RMul(Rat(1, 4), VolTerm(SampleVar(returns))), h)

\* A bug compute_confidence could have: the length test off by one.
compute_confidence_short(close, window, h) ==
    IF close.none \/ Len(close.values) < window THEN 500
    ELSE LET returns == iloc_last(pct_change(close.values), window)
         IN  IF Len(returns) < 2 THEN 0
             ELSE ScoreTenths(VolTerm(SampleVar(returns)), h)

\* compute_confidence, in tenths of a point.  `close` is [none, values]: None,
\* or the series of closes.  With fewer than two returns
\* Series.std() is NaN, and max(0.0, NaN) is 0.0 in Python (the comparison
\* NaN > 0.0 is false, so the first argument is kept).
compute_confidence(close, window, h) ==
    IF close.none \/ Len(close.values) < window + 1 THEN 500
    ELSE LET returns == iloc_last(pct_change(close.values), window)
         IN  IF Len(returns) < 2 THEN 0
             ELSE ScoreTenths(VolTerm(SampleVar(returns)), h)

(***************************************************************************)
(* src/analytics/recommender.py: _safe_normalize                           *)
(***************************************************************************)
\* A column entry is [nan, v]: NaN, or the number v.
\* pd.to_numeric(series, errors="coerce").dropna(): the entries that are
\* numbers, as a set of values.
NumericValues(series) == {series[i].v : i \in {j \in 1..Len(series) : ~series[j].nan}}

SetMax(S) == CHOOSE x \in S : \A y \in S : y <= x

SetMin(S) == CHOOSE x \in S : \A y \in S : x <= y

Half == Rat(1, 2)

\* A bug _safe_normalize could have: dividing by the maximum instead of the
\* range.
safe_normalize_bymax(series) ==
    LET s == NumericValues(series)
    IN  IF s = {} THEN [i \in 1..Len(series) |-> Half]
        ELSE LET rng == SetMax(s) - SetMin(s)
             IN  IF rng = 0 THEN [i \in 1..Len(series) |-> Half]
                 ELSE [i \in 1..Len(series) |->
                         IF series[i].nan \/ SetMax(s) = 0 THEN Half
                         ELSE Rat(series[i].v - SetMin(s), SetMax(s))]

\* _safe_normalize: the normalized column, entry by entry, as rationals.
safe_normalize(series) ==
    LET s == NumericValues(series)
    IN  IF s = {} THEN [i \in 1..Len(series) |-> Half]
        ELSE LET rng == SetMax(s) - SetMin(s)
             IN  IF rng = 0 THEN [i \in 1..Len(series) |-> Half]
                 ELSE [i \in 1..Len(series) |->
                         IF series[i].nan THEN Half
                         ELSE Rat(series[i].v - SetMin(s), rng)]

(***************************************************************************)
(* src/analytics/recommender.py: compute_scores                            *)
(*                                                                         *)
(* A frame is what get_batch holds for a ticker: `none` for None, the      *)
(* number of rows, the set of its columns, the raw Close column in whole   *)
(* euros and the raw Volume column in shares, a cell being NaN when it is  *)
(* missing or not a number (what pd.to_numeric(errors="coerce") makes of   *)
(* it).  The rows of a frame are consecutive trading sessions, five to a   *)
(* week, and `weekday` is the day of the week of its last row (1 for       *)
(* Monday .. 5 for Friday): row i of n is n - i sessions before the last.  *)
(***************************************************************************)
NaN == -1

\* sorted(S): the numbers of S in ascending order.
RECURSIVE SortedSeq(_)
SortedSeq(S) ==
    IF S = {} THEN <<>>
    ELSE LET m == CHOOSE x \in S : \A y \in S : x <= y
         IN  <<m>> \o SortedSeq(S \ {m})

\* Lines 51 and 61: the least number of observations of a scored instrument.
MinObservations == 60

\* Line 74: the number of sessions the momentum looks back.
MomentumSessions == 63

\* confidence.py line 9: the default window of compute_confidence.
DefaultWindow == 20

\* Line 135: head(5).
TopN == 5

\* pd.to_numeric(column, errors="coerce").dropna(): the cells that are
\* numbers, in order.
dropna(column) == SelectSeq(column, LAMBDA x : x # NaN)

\* df.empty: no row or no column.
IsEmpty(df) == df.rows = 0 \/ df.columns = {}

Skipped(why) == [skipped |-> TRUE, why |-> why]

\* A bug the filter could have: the test of line 61 left out, the rows of
\* the frame being counted and not the usable closes.
TooFewClosesUnchecked(close) == FALSE

\* Line 61.
TooFewCloses(close) == Len(close) < MinObservations

\* Lines 66-70: the return of the benchmark over its whole history, 0 when
\* the benchmark is empty or has no Close column.  float(x) / float(y)
\* raises ZeroDivisionError for y = 0, and iloc[-1] raises IndexError on a
\* series that dropna() left empty.  squeeze() turns the Close column of a
\* frame of one row into a scalar, which has no dropna(): AttributeError.
cac_ret(cac) ==
    IF ~IsEmpty(cac) /\ "Close" \in cac.columns
    THEN LET cac_close == dropna(cac.Close)
         IN  IF cac.rows = 1 THEN Raised("AttributeError")
             ELSE IF cac_close = <<>> THEN Raised("IndexError")
             ELSE IF cac_close[1] = 0 THEN Raised("ZeroDivisionError")
             ELSE [raised |-> "none",
                   value  |-> RSub(Rat(cac_close[Len(cac_close)], cac_close[1]), RInt(1))]
    ELSE [raised |-> "none", value |-> RInt(0)]

\* Line 74-75: the index (from 1) of the close the momentum starts from.
MomentumBase(n) == IF n - MomentumSessions > 0 THEN n - MomentumSessions + 1 ELSE 1

\* The week of row i of a frame of n rows whose last row falls on the day
\* `weekday`, counted back from the week of the last row (0).
WeekBack(i, n, weekday) == ((n - i) + (5 - weekday)) \div 5

\* The last usable close of the weeks w, w - 1, .., 0 back, oldest first;
\* NaN for a week that has none.
RECURSIVE WeeklyLast(_, _, _)
WeeklyLast(column, weekday, w) ==
    LET n     == Len(column)
        inWk  == {i \in 1..n : column[i] # NaN /\ WeekBack(i, n, weekday) = w}
        newer == IF w = 0 THEN <<>> ELSE WeeklyLast(column, weekday, w - 1)
    IN  <<IF inWk = {} THEN NaN ELSE column[SetMax(inWk)]>> \o newer

\* close.resample("W").last() for a column with a usable close: one entry
\* for every week from that of the first usable close to that of the last,
\* NaN for a week in between that has none.
resample_last(column, weekday) ==
    LET n      == Len(column)
        usable == {i \in 1..n : column[i] # NaN}
        all    == WeeklyLast(column, weekday, WeekBack(SetMin(usable), n, weekday))
    IN  SubSeq(all, 1, Len(all) - WeekBack(SetMax(usable), n, weekday))

\* What pct_change() does with the NaN of a series: pandas before 3.0 fills
\* them with the value before (fill = "pad", the default then), pandas 3.0
\* leaves them (fill = "none").  The repository pins no version.
\*
\* series.pct_change().dropna(): the returns between consecutive entries,
\* after every NaN was replaced by the last value before it if pct_change()
\* fills (the first entry is not NaN); a return with a NaN entry is NaN and
\* is dropped.
weekly_pct_change(series, fill) ==
    LET ffill  == [k \in 1..Len(series) |->
                     series[SetMax({j \in 1..k : series[j] # NaN})]]
        filled == IF fill = "pad" THEN ffill ELSE series
        kept   == SortedSeq({k \in 2..Len(filled) :
                               filled[k] # NaN /\ filled[k - 1] # NaN})
    IN  [j \in 1..Len(kept) |->
            RSub(Rat(filled[kept[j]], filled[kept[j] - 1]), RInt(1))]

\* Limbs of 10^4, lowest first: a natural number too large for a machine
\* integer of the model checker.
RECURSIVE Limbs(_)
Limbs(n) == IF n < 10000 THEN <<n>> ELSE <<n % 10000>> \o Limbs(n \div 10000)

\* x * k + carry for 1 <= k <= 200000.
RECURSIVE LimbsTimes(_, _, _)
LimbsTimes(x, k, carry) ==
    IF x = <<>> THEN (IF carry = 0 THEN <<>> ELSE Limbs(carry))
    ELSE <<(Head(x) * k + carry) % 10000>>
         \o LimbsTimes(Tail(x), k, (Head(x) * k + carry) \div 10000)

\* x + y + carry.
RECURSIVE LimbsPlus(_, _, _)
LimbsPlus(x, y, carry) ==
    IF x = <<>> /\ y = <<>> THEN (IF carry = 0 THEN <<>> ELSE <<carry>>)
    ELSE LET a == IF x = <<>> THEN 0 ELSE Head(x)
             b == IF y = <<>> THEN 0 ELSE Head(y)
         IN  <<(a + b + carry) % 10000>>
             \o LimbsPlus(IF x = <<>> THEN <<>> ELSE Tail(x),
                          IF y = <<>> THEN <<>> ELSE Tail(y), (a + b + carry) \div 10000)

\* -1, 0 or 1 as x < y, x = y or x > y.
RECURSIVE LimbsCompare(_, _)
LimbsCompare(x, y) ==
    IF Len(x) # Len(y) THEN (IF Len(x) < Len(y) THEN -1 ELSE 1)
    ELSE IF x = <<>> THEN 0
    ELSE LET top == LimbsCompare(Tail(x), Tail(y))
         IN  IF top # 0 THEN top
             ELSE IF Head(x) < Head(y) THEN -1
             ELSE IF Head(x) > Head(y) THEN 1 ELSE 0

\* 1 / (1 + sqrt(var)) against the bound (2m - 1) / 20000 between the
\* roundings m - 1 and m: -1, 0 or 1 as the stability is above, on or below
\* the bound.  With a = 2m - 1 and c = 20000 - a the stability is at least
\* the bound when var * a^2 <= c^2.
AgainstBound(var, m) ==
    LET a == 2 * m - 1
        c == 20000 - a
    IN  LimbsCompare(LimbsTimes(LimbsTimes(Limbs(var[1]), a, 0), a, 0),
                     LimbsTimes(LimbsTimes(Limbs(var[2]), c, 0), c, 0))

\* The greatest m of lo .. hi whose bound the stability reaches (lo does).
RECURSIVE ReachedBound(_, _, _)
ReachedBound(var, lo, hi) ==
    IF lo >= hi THEN lo
    ELSE LET mid == (lo + hi + 1) \div 2
         IN  IF AgainstBound(var, mid) <= 0 THEN ReachedBound(var, mid, hi)
             ELSE ReachedBound(var, lo, mid - 1)

\* Lines 80 and 103: round(1.0 / (1.0 + wk_std), 4) in ten-thousandths for
\* wk_std = sqrt(var) > 0, the square root being irrational in general.
StabilityOf(var, h) ==
    IF AgainstBound(var, 1) > 0 THEN 0
    ELSE LET m == ReachedBound(var, 1, 10000)
         IN  IF AgainstBound(var, m) = 0 /\ h = "down" THEN m - 1 ELSE m

\* Lines 77-80 and 103: the stability of the last four weekly returns, in
\* ten-thousandths.
stability(column, weekday, fill, h) ==
    LET weekly_returns == weekly_pct_change(resample_last(column, weekday), fill)
        last4w         == IF Len(weekly_returns) >= 4
                          THEN SubSeq(weekly_returns, Len(weekly_returns) - 3,
                                      Len(weekly_returns))
                          ELSE weekly_returns
    IN  IF Len(last4w) > 1 /\ SampleVar(last4w)[1] > 0
        THEN StabilityOf(SampleVar(last4w), h) ELSE 10000

\* Lines 83-89: the mean of close x volume over the last 20 rows that have
\* both, in euros; 0 without a Volume column or without such a row.
price_vol(df) ==
    IF "Volume" \notin df.columns THEN RInt(0)
    ELSE LET common_idx == {i \in 1..Len(df.Close) :
                               df.Close[i] # NaN /\ df.Volume[i] # NaN}
             rows       == SortedSeq(common_idx)
             last20     == IF Len(rows) > 20 THEN SubSeq(rows, Len(rows) - 19, Len(rows))
                           ELSE rows
         IN  IF common_idx = {} THEN RInt(0)
             ELSE RDiv(RSum([k \in 1..Len(last20) |->
                               RInt(df.Close[last20[k]] * df.Volume[last20[k]])]),
                       RInt(Len(last20)))

\* Lines 64-107 for a frame with enough closes: the rows the instrument
\* can get, one for each side the ties of its roundings fall on and each
\* filling of pct_change(), or the exception that the `except Exception:
\* continue` of line 108 swallows.  ret_12m and mom_3m are in hundredths of
\* a percent, price and target in cents, confidence in tenths.
FactorRows(df, close, cac, investment, gross_target_pct, fee) ==
    IF close[1] = 0 THEN {Skipped("ZeroDivisionError")}
    ELSE IF cac_ret(cac).raised # "none" THEN {Skipped(cac_ret(cac).raised)}
    ELSE IF close[MomentumBase(Len(close))] = 0 THEN {Skipped("ZeroDivisionError")}
    ELSE IF close[Len(close)] = 0 THEN {Skipped("ZeroDivisionError")}
    ELSE
    LET last         == close[Len(close)]
        ret_12m      == RSub(Rat(last, close[1]), RInt(1))
        relative_ret == RSub(ret_12m, cac_ret(cac).value)
        mom_3m       == RSub(Rat(last, close[MomentumBase(Len(close))]), RInt(1))
        targets      == {compute_target(RInt(last), investment, gross_target_pct, fee,
                                        DefaultPctFee, "flat", h).value : h \in Halves}
    IN  {[skipped    |-> FALSE,
          ticker     |-> df.ticker,
          price      |-> price,
          ret_12m    |-> r12,
          mom_3m     |-> m3,
          stability  |-> stab,
          liquidity  |-> price_vol(df),
          confidence |-> confidence,
          target     |-> target] :
            price      \in Rounds(RInt(last), 2),
            r12        \in Rounds(RMul(relative_ret, RInt(100)), 2),
            m3         \in Rounds(RMul(mom_3m, RInt(100)), 2),
            stab       \in {stability(df.Close, df.weekday, fill, h) :
                               fill \in {"pad", "none"}, h \in Halves},
            confidence \in {compute_confidence([none |-> FALSE, values |-> close],
                                               DefaultWindow, h) : h \in Halves},
            target     \in UNION {Rounds(Rat(t, 10000), 2) : t \in targets}}

\* Lines 50-109: one turn of the loop over data.items(): the instrument is
\* skipped, or gets one of its rows.
ScanInstrument(df, cac, investment, gross_target_pct, fee) ==
    IF df.none THEN {Skipped("None")}
    ELSE IF IsEmpty(df) \/ df.rows < MinObservations THEN {Skipped("TooFewRows")}
    ELSE IF "Close" \notin df.columns THEN {Skipped("NoClose")}
    ELSE IF TooFewCloses(dropna(df.Close)) THEN {Skipped("TooFewCloses")}
    ELSE FactorRows(df, dropna(df.Close), cac, investment, gross_target_pct, fee)

\* Lines 49-109: the rows of the instruments that were not skipped, in the
\* order of data.items(): every list of rows the loop can build.
RECURSIVE ScanAll(_, _, _, _, _)
ScanAll(frames, cac, investment, gross_target_pct, fee) ==
    IF frames = <<>> THEN {<<>>}
    ELSE {(IF r.skipped THEN <<>> ELSE <<r>>) \o rest :
            r \in ScanInstrument(Head(frames), cac, investment, gross_target_pct, fee),
            rest \in ScanAll(Tail(frames), cac, investment, gross_target_pct, fee)}

\* A column of the rows as _safe_normalize takes it.
Column(rows, name) == [i \in 1..Len(rows) |-> [nan |-> FALSE, v |-> rows[i][name]]]

\* The least common multiple of the denominators of the liquidities.
RECURSIVE CommonDenominator(_)
CommonDenominator(rows) ==
    IF rows = <<>> THEN 1
    ELSE LET rest == CommonDenominator(Tail(rows))
             d    == Head(rows).liquidity[2]
         IN  (rest \div GCD(rest, d)) * d

\* The liquidity column, a mean of products and so a fraction of a euro,
\* counted in the unit that makes every entry a whole number: the
\* normalization of _safe_normalize does not depend on the unit.
LiquidityColumn(rows) ==
    [i \in 1..Len(rows) |->
        [nan |-> FALSE,
         v   |-> rows[i].liquidity[1]
                 * (CommonDenominator(rows) \div rows[i].liquidity[2])]]

\* The product of the denominators of the fractions x[j], j # i, in limbs.
RECURSIVE OtherDenominators(_, _, _)
OtherDenominators(x, i, j) ==
    IF j > Len(x) THEN <<1>>
    ELSE IF j = i THEN OtherDenominators(x, i, j + 1)
    ELSE LimbsTimes(OtherDenominators(x, i, j + 1), x[j][2], 0)

\* The sum over i >= k of rest[i] / x[i][2], as a numerator in limbs over
\* the product of all the denominators.
RECURSIVE RestNumerator(_, _, _)
RestNumerator(x, rest, k) ==
    IF k > Len(x) THEN <<>>
    ELSE IF rest[k] = 0 THEN RestNumerator(x, rest, k + 1)
    ELSE LimbsPlus(LimbsTimes(OtherDenominators(x, k, 1), rest[k], 0),
                   RestNumerator(x, rest, k + 1), 0)

\* round(w[1] * x[1] + .. + w[4] * x[4]) for whole weights w and fractions x
\* of [0, 1]: the whole parts of the terms, plus one for every t + 1/2 that
\* the sum of their fractional parts passes.  The products of the
\* denominators are kept in limbs.
RoundWeighted(w, x, h) ==
    LET whole == [i \in 1..Len(x) |-> (w[i] * x[i][1]) \div x[i][2]]
        rest  == [i \in 1..Len(x) |-> (w[i] * x[i][1]) % x[i][2]]
        num2  == LimbsTimes(RestNumerator(x, rest, 1), 2, 0)
        den   == LimbsTimes(OtherDenominators(x, 1, 1), x[1][2], 0)
        past  == {t \in 0..(Len(x) - 1) :
                    \/ LimbsCompare(num2, LimbsTimes(den, 2 * t + 1, 0)) > 0
                    \/ /\ LimbsCompare(num2, LimbsTimes(den, 2 * t + 1, 0)) = 0
                       /\ h = "up"}
    IN  whole[1] + whole[2] + whole[3] + whole[4] + Cardinality(past)

\* A bug the composite could have: the weights of the relative return and
\* of the momentum exchanged.
composite_swapped(norm_ret, norm_mom, norm_stab, norm_liq, h) ==
    RoundWeighted(<<300, 350, 200, 150>>, <<norm_ret, norm_mom, norm_stab, norm_liq>>, h)

\* Lines 123-130: the composite score round((0.35 * norm_ret + 0.30 *
\* norm_mom + 0.20 * norm_stab + 0.15 * norm_liq) * 100, 1), in tenths of a
\* point.
composite(norm_ret, norm_mom, norm_stab, norm_liq, h) ==
    RoundWeighted(<<350, 300, 200, 150>>, <<norm_ret, norm_mom, norm_stab, norm_liq>>, h)

\* Lines 118-121: the rows with their normalized factors.
Normalized(rows) ==
    LET norm_ret  == safe_normalize(Column(rows, "ret_12m"))
        norm_mom  == safe_normalize(Column(rows, "mom_3m"))
        norm_stab == safe_normalize(Column(rows, "stability"))
        norm_liq  == safe_normalize(LiquidityColumn(rows))
    IN  [i \in 1..Len(rows) |->
            [ticker     |-> rows[i].ticker,
             price      |-> rows[i].price,
             ret_12m    |-> rows[i].ret_12m,
             mom_3m     |-> rows[i].mom_3m,
             stability  |-> rows[i].stability,
             liquidity  |-> rows[i].liquidity,
             confidence |-> rows[i].confidence,
             target     |-> rows[i].target,
             norm_ret   |-> norm_ret[i],
             norm_mom   |-> norm_mom[i],
             norm_stab  |-> norm_stab[i],
             norm_liq   |-> norm_liq[i]]]

\* The row with its score.
WithScore(r, score) ==
    [ticker     |-> r.ticker,     price     |-> r.price,
     ret_12m    |-> r.ret_12m,    mom_3m    |-> r.mom_3m,
     stability  |-> r.stability,  liquidity |-> r.liquidity,
     confidence |-> r.confidence, target    |-> r.target,
     norm_ret   |-> r.norm_ret,   norm_mom  |-> r.norm_mom,
     norm_stab  |-> r.norm_stab,  norm_liq  |-> r.norm_liq,
     score      |-> score]

\* Lines 123-130 on the rows from the k-th on: every list of scored rows
\* the rounding of the scores can give, the tie of each row falling on its
\* own side.
RECURSIVE ScoredFrom(_, _)
ScoredFrom(normalized, k) ==
    IF k > Len(normalized) THEN {<<>>}
    ELSE LET r == normalized[k]
         IN  {<<WithScore(r, composite(r.norm_ret, r.norm_mom, r.norm_stab, r.norm_liq, h))>>
              \o rest : h \in Halves, rest \in ScoredFrom(normalized, k + 1)}

\* Lines 118-130: the rows with their normalized factors and their score.
Scored(rows) == ScoredFrom(Normalized(rows), 1)

\* Line 134: sort_values("score", ascending=False).  The order of the rows
\* of one score is left to the sorting algorithm (numpy's quicksort is not
\* stable beyond 16 rows): every order of the rows by non-increasing score.
RECURSIVE Rankings(_, _)
Rankings(rows, left) ==
    IF left = {} THEN {<<>>}
    ELSE UNION {{<<rows[i]>> \o rest : rest \in Rankings(rows, left \ {i})} :
                i \in {j \in left : \A k \in left : rows[k].score <= rows[j].score}}

\* A bug line 135 could have: the last rows kept instead of the first.
tail(rows, n) == IF Len(rows) <= n THEN rows ELSE SubSeq(rows, Len(rows) - n + 1, Len(rows))

\* Line 135: head(n).
head(rows, n) == IF Len(rows) <= n THEN rows ELSE SubSeq(rows, 1, n)

\* The DataFrame returned: its columns and its rows.  pd.DataFrame() has
\* neither.
EmptyFrame == [columns |-> {}, rows |-> <<>>]

ScoreColumns ==
    {"ticker", "name", "sector", "price", "ret_12m", "mom_3m", "stability", "liquidity",
     "confidence", "target", "gross_pct", "norm_ret", "norm_mom", "norm_stab", "norm_liq",
     "score"}

\* Lines 112-137 on the rows the loop built.
RankedFrames(rows) ==
    IF rows = <<>> THEN {EmptyFrame}
    ELSE UNION {{[columns |-> ScoreColumns, rows |-> head(ranked, TopN)] :
                   ranked \in Rankings(scored, 1..Len(scored))} :
                scored \in Scored(rows)}

\* compute_scores: the frames it may return, one for each side the ties of
\* its roundings may fall on and each order the sort may leave equal scores
\* in.
compute_scores(frames, cac, investment, gross_target_pct, fee) ==
    UNION {RankedFrames(rows) :
             rows \in ScanAll(frames, cac, investment, gross_target_pct, fee)}

(***************************************************************************)
(* src/analytics/backtester.py: run_backtest                               *)
(*                                                                         *)
(* A date is the number of a trading day; a close series is a function     *)
(* from the dates it holds (after dropna(): a date whose Close is NaN is   *)
(* not in it) to the close in whole euros.  str(date)[:10], the ISO day of *)
(* a date, orders as the dates do, so trades and equity points keep dates. *)
(***************************************************************************)
MaxDates == 5     \* number of trading days of the price history

RECURSIVE SelectEntries(_)
\* Lines 40-43: the frames that have a Close column, in the order of `data`.
SelectEntries(d) ==
    IF d = <<>> THEN <<>>
    ELSE IF Head(d).hasClose THEN <<Head(d)>> \o SelectEntries(Tail(d))
    ELSE SelectEntries(Tail(d))

\* Lines 49-51: the dates common to all series, sorted, from the cutoff on.
RetainedDates(entries, cut) ==
    SortedSeq({d \in DOMAIN entries[1].close :
                 /\ \A i \in 1..Len(entries) : d \in DOMAIN entries[i].close
                 /\ d >= cut})

\* A bug the length test could have: one date too few accepted.
TooFewDatesLax(n, interval_days) == n < interval_days - 1

\* Line 53.
TooFewDates(n, interval_days) == n < interval_days

\* Line 61: the loop runs while ci < len(dates) - interval_days, from 0 in
\* steps of interval_days.
InRange(c, n, interval_days) == c < n - interval_days

Min(a, b) == IF a < b THEN a ELSE b

\* A bug line 65 could have: the sale on the first date of the next cycle.
SellIndexNext(c, n, interval_days) == Min(c + interval_days, n - 1)

\* Line 65: the index (from 0) of the cycle's last date.
SellIndex(c, n, interval_days) == Min(c + interval_days - 1, n - 1)

\* price_series.loc[buy_date:sell_date]: the dates of the series from
\* buy_date to sell_date, both included, ascending.
CycleDates(series, buy_date, sell_date) ==
    SortedSeq({d \in DOMAIN series : buy_date <= d /\ d <= sell_date})

\* A bug the test of line 80 could have: a close within 10 % of the target
\* taken for a hit.
ReachesNear(p, target_px) == p * 11000 >= target_px

\* p >= target_px, p in euros and target_px in ten-thousandths.
Reaches(p, target_px) == p * 10000 >= target_px

\* A bug the scan could have: the date of the best close that reaches the
\* target (0 when none does), instead of the first.
BestHit(series, buy_date, sell_date, target_px) ==
    LET hits == {d \in DOMAIN series :
                   buy_date <= d /\ d <= sell_date /\ Reaches(series[d], target_px)}
    IN  IF hits = {} THEN 0
        ELSE CHOOSE d \in hits : \A e \in hits :
                 series[e] < series[d] \/ (series[e] = series[d] /\ d <= e)

RECURSIVE ScanFrom(_, _, _, _)
ScanFrom(series, ds, i, target_px) ==
    IF i > Len(ds) THEN 0
    ELSE IF Reaches(series[ds[i]], target_px) THEN ds[i]
    ELSE ScanFrom(series, ds, i + 1, target_px)

\* Lines 76-83: the loop over cycle_prices.items(), stopped by `break` at the
\* first close that reaches the target; 0 stands for hit_date = None.
FirstHit(series, buy_date, sell_date, target_px) ==
    ScanFrom(series, CycleDates(series, buy_date, sell_date), 1, target_px)

\* Lines 69-71 and 109: the trade is given up when the buy date is not in
\* the series (KeyError) or the buy price is not positive.
Degenerate(series, buy_date) ==
    IF buy_date \notin DOMAIN series THEN TRUE ELSE series[buy_date] <= 0

\* A bug the skip could have: `break` for `continue`, giving up the rest of
\* the cycle.
BreakPosition(t, c, nTickers, interval_days) == <<1, c + interval_days>>

\* The next (ticker, cycle) of the two nested loops: the next ticker of the
\* cycle, or the first ticker of the next cycle.
NextPosition(t, c, nTickers, interval_days) ==
    IF t < nTickers THEN <<t + 1, c>> ELSE <<1, c + interval_days>>

\* After `continue` (lines 71 and 110).
SkipPosition(t, c, nTickers, interval_days) == NextPosition(t, c, nTickers, interval_days)

\* Line 73: the share count of the trade, whatever the fee mode.
qty(p, buy_price) == RDiv(RSub(p.investment_amt, p.flat_fee), RInt(buy_price))

\* Lines 85-105: the sale, at the first hit or else at the cycle's end, and
\* the row of the trade log.  `found` is the date of the hit, 0 for None.
\* h holds the sides the ties of the three roundings of a trade fall on:
\* that of compute_target, that of the prices of the row (lines 100-102;
\* among them only the target can be a tie, the closes being whole euros)
\* and that of compute_net_gain.
Sale(ticker, series, buy_date, sell_date, p, target_px, found, h) ==
    LET buy_price == series[buy_date]
        hit_date  == IF found = 0 THEN sell_date ELSE found
        hit_price == series[hit_date]
    IN  [buy_date   |-> buy_date,
         sell_date  |-> hit_date,
         ticker     |-> ticker,
         buy_price  |-> RoundSide(RInt(buy_price), 2, h.price),
         target     |-> RoundSide(Rat(target_px, 10000), 2, h.price),
         sell_price |-> RoundSide(RInt(hit_price), 2, h.price),
         pnl        |-> compute_net_gain(RInt(buy_price), RInt(hit_price),
                                         qty(p, buy_price),
                                         p.flat_fee, p.fee_mode, DefaultPctFee, h.gain),
         outcome    |-> IF found = 0 THEN "stopped" ELSE "target_hit"]

\* Lines 75-105: the scan of the cycle for the target, then the sale.
Exit(ticker, series, buy_date, sell_date, p, target_px, h) ==
    Sale(ticker, series, buy_date, sell_date, p, target_px,
         FirstHit(series, buy_date, sell_date, target_px), h)

\* Lines 69-105: the trade of one ticker in one cycle.
Trade(ticker, series, buy_date, sell_date, p, h) ==
    Exit(ticker, series, buy_date, sell_date, p,
         compute_target(RInt(series[buy_date]), p.investment_amt, p.gross_target_pct,
                        p.flat_fee, DefaultPctFee, p.fee_mode, h.target).value, h)

RECURSIVE InsertByDate(_, _)
InsertByDate(sorted, pt) ==
    IF sorted = <<>> THEN <<pt>>
    ELSE IF sorted[Len(sorted)].date <= pt.date THEN Append(sorted, pt)
    ELSE Append(InsertByDate(SubSeq(sorted, 1, Len(sorted) - 1), pt), sorted[Len(sorted)])

RECURSIVE SortByDate(_)
\* Line 116: sort_values("date").  Up to 16 rows numpy's quicksort is an
\* insertion sort, which keeps the rows of one date in their order.
SortByDate(points) ==
    IF points = <<>> THEN <<>>
    ELSE InsertByDate(SortByDate(SubSeq(points, 1, Len(points) - 1)), points[Len(points)])

PnlSet(log) == {log[i].pnl : i \in 1..Len(log)}

RECURSIVE PnlSum(_)
PnlSum(log) == IF log = <<>> THEN 0 ELSE Head(log).pnl + PnlSum(Tail(log))

\* Lines 118-129: the summary; the amounts in cents, the win rate in tenths
\* of a percent.  h holds the sides the ties of its two roundings fall on:
\* that of the win rate (line 121) and that of the mean (line 128).  The
\* total, the best and the worst trade are amounts in cents, never a tie.
Summary(log, cumulative, h) ==
    LET wins  == Cardinality({i \in 1..Len(log) : log[i].pnl > 0})
        total == Len(log)
    IN  [pnl_total |-> cumulative,
         nb        |-> total,
         win_rate  |-> RoundSide(RMul(Rat(wins, total), RInt(100)), 1, h.rate),
         best      |-> SetMax(PnlSet(log)),
         worst     |-> SetMin(PnlSet(log)),
         mean      |-> RoundSide(Rat(PnlSum(log), 100 * total), 2, h.mean)]

\* What run_backtest returns: {"error": ...}, or the three results.  The
\* errors are NoData ("Aucune donnée disponible pour le backtest."),
\* NoCloses ("Données insuffisantes."), TooFewDates ("Pas assez de données
\* (seulement n jours communs).") and NoTrades ("Aucune transaction simulée.").
Error(e, n) == [kind |-> "error", error |-> e, days |-> n]

\* A bug the end of run_backtest could have: no test of the empty trade log,
\* an empty run returned as a success.
BuildResultUnguarded(log, points, cumulative, h) ==
    [kind         |-> "ok",
     trades_df    |-> log,
     equity_curve |-> SortByDate(points),
     summary      |-> IF log = <<>> THEN [nb |-> 0]
                      ELSE Summary(log, cumulative, h)]

\* Lines 112-135.
BuildResult(log, points, cumulative, h) ==
    IF log = <<>> THEN Error("NoTrades", 0)
    ELSE [kind         |-> "ok",
          trades_df    |-> log,
          equity_curve |-> SortByDate(points),
          summary      |-> Summary(log, cumulative, h)]

\* ---- the inputs ----
FullSeries(S) == [1..MaxDates -> S]

\* 100 until date k, 110 from date k on.
StepSeries(k) == [d \in 1..MaxDates |-> IF d < k THEN 100 ELSE 110]

Without(s, j) == [d \in (DOMAIN s) \ {j} |-> s[d]]

\* Ticker A: every path over three price levels, and paths with one zero.
SeriesA ==
    FullSeries({100, 110, 120})
    \cup {[s EXCEPT ![j] = 0] : s \in FullSeries({100, 110}), j \in 1..MaxDates}

\* Ticker B: a step up at some date, possibly with one date missing or one
\* zero close.
SeriesB ==
    {StepSeries(k) : k \in 2..(MaxDates + 1)}
    \cup {Without(StepSeries(k), j) : k \in {2, MaxDates + 1}, j \in 1..MaxDates}
    \cup {[StepSeries(MaxDates + 1) EXCEPT ![j] = 0] : j \in 1..MaxDates}

Frame(t, has, s) == [ticker |-> t, hasClose |-> has, close |-> s]

\* A few series of ticker A: the steps, and the flat series with one zero.
SeriesAFew ==
    {StepSeries(k) : k \in 2..(MaxDates + 1)}
    \cup {[StepSeries(MaxDates + 1) EXCEPT ![j] = 0] : j \in 1..MaxDates}

\* 2 on the first date, 3 afterwards: 49.005 shares bought at 2 and sold at
\* 3 gain 45.025 euros, halfway between two roundings to the cent.
TieSeries == [d \in 1..MaxDates |-> IF d = 1 THEN 2 ELSE 3]

\* No frame at all, a frame without a Close column, one ticker, two tickers.
DataSetsFew ==
    {<<>>}
    \cup {<<Frame("A", TRUE, TieSeries)>>}
    \cup {<<Frame("A", FALSE, StepSeries(2))>>}
    \cup {<<Frame("A", TRUE, a)>> : a \in SeriesAFew}
    \cup {<<Frame("A", FALSE, StepSeries(2)), Frame("B", TRUE, b)>> : b \in SeriesAFew}
    \cup {<<Frame("A", TRUE, a), Frame("B", TRUE, b)>> : a \in SeriesAFew, b \in SeriesB}

DataSets ==
    DataSetsFew
    \cup {<<Frame("A", TRUE, a), Frame("B", TRUE, b)>> : a \in SeriesA, b \in SeriesB}

\* run_backtest's defaults: 100 euros, 4.5 %, a fee of 1.99 euros.
ParamSets ==
    [investment_amt : {RInt(100)}, gross_target_pct : {Rat(45, 1000)},
     flat_fee : {Rat(199, 100)}, fee_mode : FeeModes, interval_days : {2, 3}]

\* datetime.now() - lookback_days falls before the history, inside it, or
\* near its end.
Cutoffs == {1, 2, MaxDates - 1}

\* The settings store has not been opened: finemg.db has no table yet.
NoTable == [exists |-> FALSE, rows |-> <<>>]

DbIdle == settings = NoTable /\ db_calls = <<>>

FnIdle == fn = "none" /\ args = <<>> /\ ret = [raised |-> "none", value |-> 0]

\* The whole of DataSets is run in flat mode with the history kept whole;
\* the other modes and cutoffs are run on DataSetsFew.
Init ==
    /\ params \in ParamSets
    /\ cutoff \in Cutoffs
    /\ data \in (IF params.fee_mode = "flat" /\ cutoff = 1 THEN DataSets ELSE DataSetsFew)
    /\ pc = "start"
    /\ closes = <<>> /\ tickerOrder = <<>> /\ dates = <<>> /\ ci = 0 /\ ti = 0
    /\ trade_log = <<>> /\ cumulative_pnl = 0 /\ equity_points = <<>>
    /\ result = [kind |-> "none"]
    /\ FnIdle
    /\ DbIdle
    /\ half = "down"

inputVars == <<data, params, cutoff>>

loopVars == <<closes, tickerOrder, dates, ci, ti, trade_log, cumulative_pnl, equity_points>>

\* Lines 35-37.
ReturnNoData ==
    /\ pc = "start"
    /\ Len(data) = 0
    /\ result' = Error("NoData", 0)
    /\ pc' = "done"
    /\ UNCHANGED <<inputVars, loopVars, fnVars, dbVars, half>>

\* Lines 40-46.
ReturnNoCloses ==
    /\ pc = "start"
    /\ Len(data) > 0
    /\ SelectEntries(data) = <<>>
    /\ result' = Error("NoCloses", 0)
    /\ pc' = "done"
    /\ UNCHANGED <<inputVars, loopVars, fnVars, dbVars, half>>

\* Lines 48-54.
ReturnTooFewDates ==
    /\ pc = "start"
    /\ Len(data) > 0
    /\ SelectEntries(data) # <<>>
    /\ LET ds == RetainedDates(SelectEntries(data), cutoff)
       IN  /\ TooFewDates(Len(ds), params.interval_days)
           /\ result' = Error("TooFewDates", Len(ds))
    /\ pc' = "done"
    /\ UNCHANGED <<inputVars, loopVars, fnVars, dbVars, half>>

\* Lines 40-58, when the history is long enough: the loops begin.
BeginCycles ==
    /\ pc = "start"
    /\ Len(data) > 0
    /\ SelectEntries(data) # <<>>
    /\ LET entries == SelectEntries(data)
           ds      == RetainedDates(entries, cutoff)
       IN  /\ ~TooFewDates(Len(ds), params.interval_days)
           /\ dates' = ds
           /\ tickerOrder' = [i \in 1..Len(entries) |-> entries[i].ticker]
           /\ closes' = [t \in {entries[i].ticker : i \in 1..Len(entries)} |->
                           (CHOOSE e \in {entries[i] : i \in 1..Len(entries)} :
                                e.ticker = t).close]
    /\ ci' = 0 /\ ti' = 1
    /\ trade_log' = <<>> /\ cumulative_pnl' = 0 /\ equity_points' = <<>>
    /\ pc' = "cycle"
    /\ UNCHANGED <<inputVars, result, fnVars, dbVars, half>>

\* Lines 68-71 and 109-110: one ticker of one cycle, given up.
SkipTrade ==
    /\ pc = "cycle"
    /\ InRange(ci, Len(dates), params.interval_days)
    /\ Degenerate(closes[tickerOrder[ti]], dates[ci + 1])
    /\ LET nxt == SkipPosition(ti, ci, Len(tickerOrder), params.interval_days)
       IN  ti' = nxt[1] /\ ci' = nxt[2]
    /\ UNCHANGED <<inputVars, closes, tickerOrder, dates, trade_log, cumulative_pnl,
                   equity_points, result, pc, fnVars, dbVars, half>>

\* Lines 63-107: one ticker of one cycle, bought and sold.
SimulateTrade ==
    /\ pc = "cycle"
    /\ InRange(ci, Len(dates), params.interval_days)
    /\ ~Degenerate(closes[tickerOrder[ti]], dates[ci + 1])
    /\ \E trade \in {Trade(tickerOrder[ti], closes[tickerOrder[ti]], dates[ci + 1],
                             dates[SellIndex(ci, Len(dates), params.interval_days) + 1],
                             params, h) :
                         h \in [target : Halves, price : Halves, gain : Halves]} :
       LET nxt == NextPosition(ti, ci, Len(tickerOrder), params.interval_days)
       IN  /\ cumulative_pnl' = cumulative_pnl + trade.pnl
           /\ trade_log' = Append(trade_log, trade)
           /\ equity_points' = Append(equity_points,
                                      [date |-> trade.sell_date,
                                       pnl_cumul |-> cumulative_pnl + trade.pnl])
           /\ ti' = nxt[1] /\ ci' = nxt[2]
    /\ UNCHANGED <<inputVars, closes, tickerOrder, dates, result, pc, fnVars, dbVars, half>>

\* Lines 112-135: the loops are over.
Finish ==
    /\ pc = "cycle"
    /\ ~InRange(ci, Len(dates), params.interval_days)
    /\ \E h \in [rate : Halves, mean : Halves] :
         result' = BuildResult(trade_log, equity_points, cumulative_pnl, h)
    /\ pc' = "done"
    /\ UNCHANGED <<inputVars, loopVars, fnVars, dbVars, half>>

Next ==
    \/ ReturnNoData
    \/ ReturnNoCloses
    \/ ReturnTooFewDates
    \/ BeginCycles
    \/ SkipTrade
    \/ SimulateTrade
    \/ Finish

Spec == Init /\ [][Next]_vars

(***************************************************************************)
(* Claims about run_backtest, checked under Spec.                          *)
(***************************************************************************)
RECURSIVE SumPnl(_)
SumPnl(log) == IF log = <<>> THEN 0 ELSE Head(log).pnl + SumPnl(Tail(log))

\* C1: in every successful result the cumulative P&L of the last point of
\* the returned equity curve equals the sum of the net P&L of all trades of
\* the trade log.
C1_Conservation ==
    result.kind = "ok"
    => result.equity_curve[Len(result.equity_curve)].pnl_cumul = SumPnl(result.trades_df)

\* The loops of run_backtest have begun: the dates are aligned.
Looping == pc = "cycle" \/ (pc = "done" /\ dates # <<>>)

\* The index in `dates` of a retained date.
DateIndex(d) == CHOOSE k \in 1..Len(dates) : dates[k] = d

\* The last date of the cycle that starts on buy_date: interval_days - 1
\* retained dates later, or the last retained date.
CycleEnd(buy_date) ==
    LET k == DateIndex(buy_date)
    IN  IF k + params.interval_days - 1 <= Len(dates)
        THEN dates[k + params.interval_days - 1] ELSE dates[Len(dates)]

\* The target of the trade, a tie of its rounding falling on the side h.
TargetOf(tr, h) ==
    compute_target(RInt(closes[tr.ticker][tr.buy_date]), params.investment_amt,
                   params.gross_target_pct, params.flat_fee, DefaultPctFee,
                   params.fee_mode, h).value

\* The dates of the trade's cycle on which the ticker's close reaches the
\* target.
HitDates(tr, h) ==
    {d \in DOMAIN closes[tr.ticker] :
        /\ tr.buy_date <= d /\ d <= CycleEnd(tr.buy_date)
        /\ closes[tr.ticker][d] * 10000 >= TargetOf(tr, h)}

\* C2: every simulated trade exits on the earliest date of its cycle, from
\* the cycle's start to its end inclusive, whose close is >= the target
\* price, at that date's close and with the outcome "target hit", whatever
\* the later closes; when no close of the cycle reaches the target it exits
\* on the cycle's last date at that date's close, with the outcome
\* "cycle-end stop".
C2_FirstTouch ==
    Looping =>
    \A i \in 1..Len(trade_log) :
        LET tr == trade_log[i]
            s  == closes[tr.ticker]
        IN  \E h \in Halves :
              IF HitDates(tr, h) # {}
              THEN /\ tr.outcome = "target_hit"
                   /\ \A d \in HitDates(tr, h) : tr.sell_date <= d
                   /\ tr.sell_date \in HitDates(tr, h)
                   /\ tr.sell_price = 100 * s[tr.sell_date]
              ELSE /\ tr.outcome = "stopped"
                   /\ tr.sell_date = CycleEnd(tr.buy_date)
                   /\ tr.sell_price = 100 * s[tr.sell_date]

\* A trade has exited on a target hit before a higher close of its cycle,
\* and another trade has run to the end of its cycle.
C2_Witness ==
    /\ Looping
    /\ \E i \in 1..Len(trade_log) :
         /\ trade_log[i].outcome = "target_hit"
         /\ \E d \in DOMAIN closes[trade_log[i].ticker] :
              /\ trade_log[i].sell_date < d /\ d <= CycleEnd(trade_log[i].buy_date)
              /\ closes[trade_log[i].ticker][d] > closes[trade_log[i].ticker][trade_log[i].sell_date]
    /\ \E i \in 1..Len(trade_log) :
         /\ trade_log[i].outcome = "stopped"
         /\ trade_log[i].sell_date > trade_log[i].buy_date

\* The frames of `data` that have a Close column.
StatedFrames == {i \in 1..Len(data) : data[i].hasClose}

\* The number of dates, from the cutoff on, that every series holds.
StatedCommonCount ==
    Cardinality({d \in 1..MaxDates :
                   d >= cutoff /\ \A i \in StatedFrames : d \in DOMAIN data[i].close})

\* C5: whenever fewer retained dates are common to all tickers than
\* interval_days, run_backtest returns an error result, the one that
\* reports the number of common days, with no trade log, equity curve or
\* summary, and no trade is simulated.
C5_TooFewDatesError ==
    (pc = "done" /\ StatedFrames # {} /\ StatedCommonCount < params.interval_days)
    => /\ result = Error("TooFewDates", StatedCommonCount)
       /\ trade_log = <<>> /\ equity_points = <<>> /\ cumulative_pnl = 0

\* run_backtest has returned the error on two tickers that share one
\* retained date only, fewer than interval_days.
C5_Witness ==
    /\ pc = "done"
    /\ Cardinality(StatedFrames) = 2
    /\ StatedCommonCount = 1
    /\ result.kind = "error" /\ result.error = "TooFewDates"

\* C6: a successful result holds at least one trade; when no trade was
\* simulated run_backtest returns an error result.
C6_NoEmptySuccess ==
    /\ result.kind = "ok" =>
          /\ Len(result.trades_df) >= 1
          /\ Len(result.equity_curve) >= 1
          /\ result.summary.nb >= 1
    /\ (pc = "done" /\ trade_log = <<>>) => result.kind = "error"

\* A cycle was formed, every trade of it was given up, and run_backtest
\* has returned the error of the empty trade log.
C6_Witness ==
    /\ pc = "done"
    /\ Len(dates) > params.interval_days
    /\ trade_log = <<>>
    /\ result = Error("NoTrades", 0)

\* The start indices (from 0) of the cycles the loop of line 61 visits.
CycleStartsRun ==
    {c \in 0..Len(dates) : c % params.interval_days = 0
                           /\ InRange(c, Len(dates), params.interval_days)}

\* The (buy date, ticker) pairs the loops visit whose entry price is
\* positive.
SoundPairs ==
    {<<dates[c + 1], t>> : c \in CycleStartsRun, t \in DOMAIN closes}
    \ {pr \in {<<dates[c + 1], t>> : c \in CycleStartsRun, t \in DOMAIN closes} :
         closes[pr[2]][pr[1]] <= 0}

\* C7: a degenerate trade (entry price <= 0) is skipped alone.  When the
\* loops are over the trade log holds one trade for every other (cycle,
\* ticker) pair, of the same cycle and of the later ones, and nothing for the
\* skipped ones; the equity curve has one point per trade and the
\* cumulative P&L is the sum of the trades' P&L.
C7_SkippedAlone ==
    (pc = "done" /\ dates # <<>>)
    => /\ {<<trade_log[i].buy_date, trade_log[i].ticker>> : i \in 1..Len(trade_log)}
            = SoundPairs
       /\ Len(trade_log) = Cardinality(SoundPairs)
       /\ Len(equity_points) = Len(trade_log)
       /\ cumulative_pnl = SumPnl(trade_log)

\* The first ticker of the first cycle had no positive entry price; the
\* second ticker of that cycle and both tickers of the next cycle were
\* traded.
C7_Witness ==
    /\ pc = "done" /\ dates # <<>>
    /\ Len(tickerOrder) = 2
    /\ closes[tickerOrder[1]][dates[1]] <= 0
    /\ Len(trade_log) = 3
    /\ trade_log[1].buy_date = dates[1] /\ trade_log[1].ticker = tickerOrder[2]
    /\ trade_log[2].buy_date > dates[1] /\ trade_log[2].ticker = tickerOrder[1]
    /\ trade_log[3].buy_date > dates[1] /\ trade_log[3].ticker = tickerOrder[2]

(***************************************************************************)
(* The pure functions called on bounded inputs.                            *)
(***************************************************************************)
MaxLen == 4       \* longest close series given to compute_confidence
MaxWindow == 3    \* largest window given to compute_confidence
MaxCol == 3       \* longest column given to _safe_normalize

EntryPrices == {RInt(0), RInt(1), RInt(50), RInt(100), Rat(1234, 100)}
Investments == {RInt(1), Rat(199, 100), RInt(100), RInt(1000)}
GrossTargets == {RInt(0), Rat(3, 100), Rat(45, 1000), Rat(1, 10)}
FlatFees == {Rat(199, 100), Rat(1, 2)}
PctFees == {Rat(5, 1000), Rat(1, 100), RInt(1)}
CloseValues == {24, 25, 30}
ColumnEntries == {[nan |-> TRUE, v |-> 0]} \cup {[nan |-> FALSE, v |-> x] : x \in {-2, 0, 1, 4}}

SeqsUpTo(S, n) == UNION {[1..k -> S] : k \in 0..n}

\* A call whose target, 3.95 * 1.045 = 4.12775, lies halfway between two
\* roundings to four decimals.
TargetTies ==
    {[entry_price |-> Rat(395, 100), investment_amt |-> RInt(100),
      gross_target_pct |-> Rat(45, 1000), flat_fee |-> RInt(0), pct_fee |-> Rat(5, 1000),
      fee_mode |-> "flat"]}

TargetArgs ==
    [entry_price : EntryPrices, investment_amt : Investments,
     gross_target_pct : GrossTargets, flat_fee : FlatFees, pct_fee : PctFees,
     fee_mode : FeeModes] \cup TargetTies

ConfidenceArgs ==
    [close : {[none |-> TRUE, values |-> <<>>]}
             \cup {[none |-> FALSE, values |-> s] : s \in SeqsUpTo(CloseValues, MaxLen)},
     window : 0..MaxWindow]

NormalizeArgs == [series : SeqsUpTo(ColumnEntries, MaxCol)]

\* A call whose breakeven, 2 * 0.99 / 400 = 0.495 %, lies halfway between
\* two roundings to two decimals.
BreakevenTies ==
    {[investment_amt |-> RInt(400), flat_fee |-> Rat(99, 100), fee_mode |-> "flat",
      pct_fee |-> Rat(5, 1000)]}

BreakevenArgs ==
    [investment_amt : Investments, flat_fee : FlatFees, fee_mode : FeeModes,
     pct_fee : PctFees] \cup BreakevenTies

\* The buy fee of a position of investment_amt euros.
BuyFee(investment_amt, flat_fee, pct_fee, fee_mode) ==
    IF fee_mode = "flat" THEN flat_fee ELSE RMul(investment_amt, pct_fee)

\* The share count of a position: (investment - buy fee) / entry price.
Shares(e, inv, f, pf, m) == RDiv(RSub(inv, BuyFee(inv, f, pf, m)), e)

\* compute_breakeven's result (hundredths of a percent) read as the fraction
\* it stands for, and as the percentage it is returned as.
BreakevenFraction(investment_amt, flat_fee, fee_mode, pct_fee) ==
    Rat(compute_breakeven(investment_amt, flat_fee, fee_mode, pct_fee, half).value, 10000)

BreakevenPercent(investment_amt, flat_fee, fee_mode, pct_fee) ==
    Rat(compute_breakeven(investment_amt, flat_fee, fee_mode, pct_fee, half).value, 100)

\* The positions compute_net_gain is called on: the investment is greater
\* than the buy fee, and in percentage mode the share count is a multiple of
\* 1/20, which keeps the products of the fee computation within the
\* integers of the model checker.
Position(e, inv, f, pf, m) ==
    /\ RLt(BuyFee(inv, f, pf, m), inv)
    /\ m = "flat" \/ Shares(e, inv, f, pf, m)[2] <= 20

\* The prices a position is sold at: the targets compute_target returns for
\* the gross targets and for the breakeven return (as a percentage only for
\* share counts that are multiples of 1/20, for the same reason).
ExitPrices(e, inv, f, pf, m) ==
    {Rat(compute_target(e, inv, g, f, pf, m, half).value, 10000) :
           g \in GrossTargets \cup {BreakevenFraction(inv, f, m, pf)}
                 \cup (IF Shares(e, inv, f, pf, m)[2] <= 20
                       THEN {BreakevenPercent(inv, f, m, pf)} ELSE {})}

\* The calls of compute_net_gain: a position of qty = (investment - buy fee) /
\* entry shares, bought at a positive entry price, sold at one of ExitPrices.
NetGainArgs ==
    UNION {{[entry_price |-> e, exit_price |-> x,
             qty |-> Shares(e, inv, f, pf, m),
             flat_fee |-> f, fee_mode |-> m, pct_fee |-> pf] :
              x \in IF Position(e, inv, f, pf, m)
                    THEN ExitPrices(e, inv, f, pf, m) ELSE {}} :
           e \in {RInt(1), RInt(50), RInt(100)},
           inv \in {RInt(1), Rat(199, 100), RInt(100)},
           f \in FlatFees, pf \in PctFees, m \in FeeModes}

\* ---- the inputs of compute_scores ----
MaxTickers == 6   \* number of instruments of the universe

\* A Close column of n cells: `first`, then `mid` throughout, then `last`.
PriceHistory(n, first, mid, last) ==
    [i \in 1..n |-> IF i = 1 THEN first ELSE IF i = n THEN last ELSE mid]

\* The column with its cells 2 .. k + 1 missing.
WithGaps(column, k) ==
    [i \in 1..Len(column) |-> IF i >= 2 /\ i <= k + 1 THEN NaN ELSE column[i]]

TickerName(i) == <<"T", i>>

\* The download is made on a Wednesday: the last row of every frame is the
\* third session of its week.
LatestWeekday == 3

OhlcvFrame(i, close, cols, volume) ==
    [ticker |-> TickerName(i), none |-> FALSE, rows |-> Len(close), columns |-> cols,
     Close |-> close, weekday |-> LatestWeekday,
     Volume |-> IF "Volume" \in cols THEN [j \in 1..Len(close) |-> volume] ELSE <<>>]

\* A frame without a Close column, of n rows.
NoCloseFrame(i, n) ==
    [ticker |-> TickerName(i), none |-> FALSE, rows |-> n, columns |-> {"Open", "Volume"},
     Close |-> <<>>, weekday |-> LatestWeekday, Volume |-> [j \in 1..n |-> 10]]

NoneFrame(i) ==
    [ticker |-> TickerName(i), none |-> TRUE, rows |-> 0, columns |-> {},
     Close |-> <<>>, weekday |-> LatestWeekday, Volume |-> <<>>]

CloseVolume == {"Close", "Volume"}

\* The frames of the first instrument: None, an empty frame, 59 rows, no
\* Close column, 62 rows of which 59 are usable, a first close of 0, a last
\* close of 0, and histories of exactly 60 and of 61 usable closes.
FirstFrames ==
    {NoneFrame(1),
     OhlcvFrame(1, <<>>, CloseVolume, 20),
     OhlcvFrame(1, PriceHistory(MinObservations - 1, 100, 100, 110), CloseVolume, 20),
     NoCloseFrame(1, MinObservations + 4),
     OhlcvFrame(1, WithGaps(PriceHistory(MinObservations + 2, 100, 100, 110), 3),
                CloseVolume, 20),
     OhlcvFrame(1, PriceHistory(MinObservations, 0, 100, 110), CloseVolume, 20),
     OhlcvFrame(1, PriceHistory(MinObservations, 100, 100, 0), CloseVolume, 20),
     OhlcvFrame(1, PriceHistory(MinObservations, 100, 100, 110), CloseVolume, 20),
     OhlcvFrame(1, WithGaps(PriceHistory(MinObservations + 4, 100, 100, 110), 3),
                CloseVolume, 20)}

\* The frames of the other instruments: one or two scored histories of 60 to
\* 65 closes, and one that is filtered out.
FrameOptions(i) ==
    IF i = 1 THEN FirstFrames
    ELSE IF i = 2 THEN
        {OhlcvFrame(2, PriceHistory(MomentumSessions + 1, 100, 110, 120), CloseVolume, 30),
         OhlcvFrame(2, PriceHistory(MomentumSessions + 1, 100, 110, 120), {"Close"}, 30),
         OhlcvFrame(2, PriceHistory(MinObservations - 1, 100, 100, 120), CloseVolume, 30)}
    ELSE IF i = 3 THEN
        {OhlcvFrame(3, PriceHistory(MomentumSessions + 1, 100, 100, 130), CloseVolume, 10),
         NoCloseFrame(3, MinObservations)}
    ELSE IF i = 4 THEN
        {OhlcvFrame(4, PriceHistory(MinObservations, 100, 110, 100), CloseVolume, 20),
         OhlcvFrame(4, PriceHistory(MinObservations - 1, 100, 110, 100), CloseVolume, 20)}
    ELSE IF i = 5 THEN
        {OhlcvFrame(5, PriceHistory(MomentumSessions + 2, 100, 110, 110), CloseVolume, 20),
         NoneFrame(5)}
    ELSE
        {OhlcvFrame(i, PriceHistory(MinObservations + (i % 2), 100, 100, 100 + 10 * (i % 4)),
                    CloseVolume, 10 * (1 + (i % 3))),
         OhlcvFrame(i, PriceHistory(MinObservations - 1, 100, 100, 110), CloseVolume, 20)}

\* One frame for each of the first k instruments, in the order of the
\* universe.
RECURSIVE Batches(_)
Batches(k) ==
    IF k = 0 THEN {<<>>}
    ELSE {Append(u, f) : u \in Batches(k - 1), f \in FrameOptions(k)}

\* The column with the five sessions of the week before its last one
\* missing (its last row is a Wednesday).
WithEmptyWeek(column) ==
    [i \in 1..Len(column) |->
        IF i >= Len(column) - 7 /\ i <= Len(column) - 3 THEN NaN ELSE column[i]]

\* Batches whose roundings meet ties: one instrument whose return (3.125 %)
\* and momentum (-65.625 %) are both ties, and four instruments of the same
\* closes whose volumes put two scores (42.55 and 43.55) on ties.
TieBatches ==
    {<<OhlcvFrame(1, PriceHistory(MomentumSessions + 1, 32, 96, 33), CloseVolume, 20)>>,
     [i \in 1..4 |-> OhlcvFrame(i, PriceHistory(MinObservations, 100, 100, 110), CloseVolume,
                                <<1000, 1001, 1021, 1300>>[i])]}

\* Batches with an instrument that has no close in the week before the last:
\* alone, and with a second instrument.
GapBatches ==
    {<<OhlcvFrame(1, WithEmptyWeek(PriceHistory(MinObservations + 7, 100, 100, 110)),
                  CloseVolume, 20)>>,
     <<OhlcvFrame(1, WithEmptyWeek(PriceHistory(MinObservations + 7, 100, 100, 110)),
                  CloseVolume, 20),
       OhlcvFrame(2, PriceHistory(MomentumSessions + 1, 100, 110, 120), CloseVolume, 30)>>}

\* What get_batch returned: nothing at all, or one frame per instrument.
Universes == {<<>>} \cup Batches(MaxTickers) \cup TieBatches \cup GapBatches

\* The benchmark: a history as long as the longest of the instruments, that
\* gained 2 % on its first session and 5 % in all, a single row, an empty
\* frame, a frame without a Close column, and a Close column without a
\* usable value.
Benchmarks ==
    {[rows |-> MomentumSessions + 2, columns |-> {"Close"},
      Close |-> PriceHistory(MomentumSessions + 2, 100, 102, 105)],
     [rows |-> 1, columns |-> {"Close"}, Close |-> <<105>>],
     [rows |-> 0, columns |-> {}, Close |-> <<>>],
     [rows |-> 2, columns |-> {"Open"}, Close |-> <<>>],
     [rows |-> 2, columns |-> {"Close"}, Close |-> <<NaN, NaN>>]}

\* compute_scores' defaults: 100 euros, 4.5 %, a fee of 1.99 euros.
ScoreArgs ==
    [frames : Universes, cac : Benchmarks, investment : {RInt(100)},
     gross_target_pct : {Rat(45, 1000)}, fee : {Rat(199, 100)}]

Pending == [raised |-> "pending", value |-> 0]

\* run_backtest is not running.
BtIdle ==
    /\ data = <<>> /\ params = <<>> /\ cutoff = 0 /\ pc = "idle"
    /\ closes = <<>> /\ tickerOrder = <<>> /\ dates = <<>> /\ ci = 0 /\ ti = 0
    /\ trade_log = <<>> /\ cumulative_pnl = 0 /\ equity_points = <<>>
    /\ result = [kind |-> "none"]

\* A call of one of the functions.  A function that rounds once is called
\* with either side for the tie of its rounding; _safe_normalize does not
\* round, and compute_scores takes a side for each of its roundings when it
\* runs.
InitFn ==
    /\ BtIdle
    /\ DbIdle
    /\ ret = Pending
    /\ \/ /\ half \in Halves
          /\ \/ fn = "compute_target" /\ args \in TargetArgs
             \/ fn = "compute_confidence" /\ args \in ConfidenceArgs
             \/ fn = "compute_net_gain" /\ args \in NetGainArgs
             \/ fn = "compute_breakeven" /\ args \in BreakevenArgs
       \/ /\ half = "down"
          /\ \/ fn = "_safe_normalize" /\ args \in NormalizeArgs
             \/ fn = "compute_scores" /\ args \in ScoreArgs

Call_compute_target ==
    /\ fn = "compute_target" /\ ret.raised = "pending"
    /\ ret' = compute_target(args.entry_price, args.investment_amt, args.gross_target_pct,
                             args.flat_fee, args.pct_fee, args.fee_mode, half)
    /\ UNCHANGED <<fn, args>>
    /\ UNCHANGED <<btVars, dbVars, half>>

Call_compute_confidence ==
    /\ fn = "compute_confidence" /\ ret.raised = "pending"
    /\ ret' = Returned(compute_confidence(args.close, args.window, half))
    /\ UNCHANGED <<fn, args>>
    /\ UNCHANGED <<btVars, dbVars, half>>

Call_safe_normalize ==
    /\ fn = "_safe_normalize" /\ ret.raised = "pending"
    /\ ret' = Returned(safe_normalize(args.series))
    /\ UNCHANGED <<fn, args>>
    /\ UNCHANGED <<btVars, dbVars, half>>

Call_compute_net_gain ==
    /\ fn = "compute_net_gain" /\ ret.raised = "pending"
    /\ ret' = Returned(compute_net_gain(args.entry_price, args.exit_price, args.qty,
                                        args.flat_fee, args.fee_mode, args.pct_fee, half))
    /\ UNCHANGED <<fn, args>>
    /\ UNCHANGED <<btVars, dbVars, half>>

Call_compute_breakeven ==
    /\ fn = "compute_breakeven" /\ ret.raised = "pending"
    /\ ret' = compute_breakeven(args.investment_amt, args.flat_fee, args.fee_mode, args.pct_fee, half)
    /\ UNCHANGED <<fn, args>>
    /\ UNCHANGED <<btVars, dbVars, half>>

\* compute_scores returns one of the frames the sort allows.
Call_compute_scores ==
    /\ fn = "compute_scores" /\ ret.raised = "pending"
    /\ \E df \in compute_scores(args.frames, args.cac, args.investment,
                                 args.gross_target_pct, args.fee) :
         ret' = Returned(df)
    /\ UNCHANGED <<fn, args>>
    /\ UNCHANGED <<btVars, dbVars, half>>

NextFn ==
    \/ Call_compute_scores
    \/ Call_compute_target
    \/ Call_compute_confidence
    \/ Call_safe_normalize
    \/ Call_compute_net_gain
    \/ Call_compute_breakeven

SpecFn == InitFn /\ [][NextFn]_vars

(***************************************************************************)
(* Claims about the pure functions, checked under SpecFn.                  *)
(***************************************************************************)
\* The call of function f has ended (returned or raised).
Ended(f) == fn = f /\ ret.raised # "pending"

OnePlus(g) == RAdd(RInt(1), g)

\* The fees and the share count as the specification states them.
StatedBuyFee ==
    IF args.fee_mode = "flat" THEN args.flat_fee
    ELSE RMul(args.investment_amt, args.pct_fee)

StatedSellFee ==
    IF args.fee_mode = "flat" THEN args.flat_fee
    ELSE RMul(RMul(args.investment_amt, OnePlus(args.gross_target_pct)), args.pct_fee)

StatedShares == RDiv(RSub(args.investment_amt, StatedBuyFee), args.entry_price)

\* C3: whenever the share count is positive, compute_target returns
\* (investment_amount * (1 + gross_target_pct) + sell_fee) / shares rounded to
\* 4 decimals, with shares = (investment_amount - buy_fee) / entry_price, the
\* fees being flat_fee on both legs in flat mode and, in percentage mode,
\* investment_amount * pct_fee to buy and
\* investment_amount * (1 + gross_target_pct) * pct_fee to sell.
C3_TargetFormula ==
    (Ended("compute_target") /\ args.entry_price[1] > 0 /\ StatedShares[1] > 0)
    => ret = Returned(RoundSide(RDiv(RAdd(RMul(args.investment_amt,
                                               OnePlus(args.gross_target_pct)),
                                          StatedSellFee),
                                     StatedShares), 4, half))

\* compute_target(100, 100, 0.045, pct_fee = 0.005, fee_mode = "pct") has
\* returned 100 * 1.045 * 1.005 / 0.995 = 105.5503.
C3_Witness ==
    /\ Ended("compute_target")
    /\ args.fee_mode = "pct" /\ args.pct_fee = Rat(5, 1000)
    /\ args.entry_price = RInt(100) /\ args.investment_amt = RInt(100)
    /\ args.gross_target_pct = Rat(45, 1000)
    /\ ret = Returned(1055503)

\* C4: compute_target never fails with a division by zero: whenever the
\* share count is zero or negative, also when entry_price is 0 and when
\* investment_amount <= buy_fee, it returns entry_price * (1 + gross_target_pct)
\* (rounded to 4 decimals) as a value.
C4_FallbackNeverRaises ==
    (Ended("compute_target")
     /\ (args.entry_price[1] = 0 \/ RLe(args.investment_amt, StatedBuyFee)))
    => ret = Returned(RoundSide(RMul(args.entry_price, OnePlus(args.gross_target_pct)),
                                4, half))

\* C8: compute_confidence returns exactly 50.0, without raising, whenever
\* the close series is None, empty, or has fewer than window + 1
\* observations.
C8_NeutralDefault ==
    (Ended("compute_confidence")
     /\ (args.close.none \/ Len(args.close.values) < args.window + 1))
    => ret = Returned(500)

\* compute_confidence has returned 50.0 for a non-empty series of exactly
\* `window` observations.
C8_Witness ==
    /\ Ended("compute_confidence")
    /\ ~args.close.none
    /\ Len(args.close.values) = args.window /\ args.window >= 2
    /\ ret = Returned(500)

\* The daily returns the volatility is taken on, as the specification states
\* them: the percentage changes of the trailing `window` observations.
StatedReturns ==
    LET c == args.close.values
        n == Len(c)
    IN  [i \in 1..args.window |->
            Rat(c[n - args.window + i] - c[n - args.window + i - 1],
                c[n - args.window + i - 1])]

RECURSIVE RSumSquares(_)
RSumSquares(s) ==
    IF s = <<>> THEN RInt(0) ELSE RAdd(RMul(Head(s), Head(s)), RSumSquares(Tail(s)))

\* (2 * (20 * annualized volatility in percent))^2, the volatility being
\* sqrt(252) * 100 times the sample standard deviation of StatedReturns:
\* var = (n * sum r^2 - (sum r)^2) / (n * (n - 1)).
StatedVolTerm4 ==
    LET r == StatedReturns
        n == Len(r)
        v == RDiv(RSub(RMul(RInt(n), RSumSquares(r)), RMul(RSum(r), RSum(r))),
                  RInt(n * (n - 1)))
    IN  RMul(RInt(4), RMul(RInt(1008000000), v))

\* C9: for every close series with at least window + 1 positive
\* observations compute_confidence returns a value in [0, 100]; where the
\* volatility exists (at least two returns, window >= 2) the value is
\* max(0, 100 - 2 * annualized volatility in percent) to the nearest tenth,
\* and it is 0 whenever the annualized volatility is >= 50%.  In tenths, with
\* s = 20 * volatility: |1000 - value - s| <= 1/2 when value > 0,
\* s >= 999.5 when value = 0, and value = 0 when s >= 1000.
C9_ConfidenceFormula ==
    (Ended("compute_confidence") /\ ~args.close.none
     /\ Len(args.close.values) >= args.window + 1)
    => /\ ret.raised = "none"
       /\ ret.value \in 0..1000
       /\ args.window >= 2 =>
            LET k  == ret.value
                w4 == StatedVolTerm4
            IN  /\ (k > 0 /\ k < 1000) =>
                        RLe(RInt((2 * (1000 - k) - 1) * (2 * (1000 - k) - 1)), w4)
                /\ k > 0 => RLe(w4, RInt((2 * (1000 - k) + 1) * (2 * (1000 - k) + 1)))
                /\ k = 0 => RLe(RInt(1999 * 1999), w4)
                /\ RLe(RInt(4000000), w4) => k = 0

\* compute_confidence(<<24, 24, 24, 25>>, window = 3) has returned 23.6: the
\* returns are 0, 0, 1/24, their annualized volatility is 38.2%.
C9_Witness ==
    /\ Ended("compute_confidence")
    /\ ~args.close.none
    /\ args.close.values = <<24, 24, 24, 25>> /\ args.window = 3
    /\ ret = Returned(236)

\* C10: _safe_normalize maps every entry of a non-empty column to a value
\* in [0, 1], the numeric entries to (value - min) / (max - min); when all
\* numeric entries are equal, or there is none, every entry is exactly 0.5.
C10_NormalizeBounds ==
    (Ended("_safe_normalize") /\ Len(args.series) >= 1)
    => LET s    == args.series
           out  == ret.value
           nums == {i \in 1..Len(s) : ~s[i].nan}
       IN  /\ ret.raised = "none"
           /\ Len(out) = Len(s)
           /\ \A i \in 1..Len(s) : 0 <= out[i][1] /\ out[i][1] <= out[i][2]
           /\ IF \A i, j \in nums : s[i].v = s[j].v
              THEN \A i \in 1..Len(s) : out[i] = <<1, 2>>
              ELSE \E lo, hi \in nums :
                     /\ \A j \in nums : s[lo].v <= s[j].v /\ s[j].v <= s[hi].v
                     /\ \A i \in nums :
                          out[i][1] * (s[hi].v - s[lo].v) = (s[i].v - s[lo].v) * out[i][2]

\* _safe_normalize(<<0, 4, -2>>) has returned <<1/3, 1, 0>>.
C10_Witness ==
    /\ Ended("_safe_normalize")
    /\ args.series = <<[nan |-> FALSE, v |-> 0], [nan |-> FALSE, v |-> 4],
                       [nan |-> FALSE, v |-> -2]>>
    /\ ret.value = <<<<1, 3>>, <<1, 1>>, <<0, 1>>>>

\* compute_target called again with the gross target g, every other argument
\* as in the call of the state.
TargetAtGross(g) ==
    compute_target(args.entry_price, args.investment_amt, g,
                   args.flat_fee, args.pct_fee, args.fee_mode, half)

UnroundedAtGross(g) ==
    target_price(args.entry_price, args.investment_amt, g,
                 args.flat_fee, args.pct_fee, args.fee_mode)

\* C14: for a positive entry_price, an investment greater than the buy fee
\* and a fixed fee structure, compute_target does not decrease when
\* gross_target_pct increases, and the target before its rounding to 4
\* decimals increases strictly.
C14_MonotoneInGross ==
    (Ended("compute_target") /\ args.entry_price[1] > 0
     /\ RLt(StatedBuyFee, args.investment_amt))
    => \A g2 \in GrossTargets :
         RLt(args.gross_target_pct, g2)
         => /\ ret.raised = "none" /\ TargetAtGross(g2).raised = "none"
            /\ ret.value <= TargetAtGross(g2).value
            /\ RLt(UnroundedAtGross(args.gross_target_pct), UnroundedAtGross(g2))

\* compute_target(100, 100, 0.03, 1.99) has returned 107.1217, less than the
\* 108.6522 of the gross target 0.045.
C14_Witness ==
    /\ Ended("compute_target")
    /\ args.fee_mode = "flat" /\ args.flat_fee = Rat(199, 100)
    /\ args.entry_price = RInt(100) /\ args.investment_amt = RInt(100)
    /\ args.gross_target_pct = Rat(3, 100)
    /\ ret = Returned(1071217)
    /\ TargetAtGross(Rat(45, 1000)) = Returned(1086522)

\* The arguments of the worked example: entry price 100, investment 100,
\* gross target 4.5 %, a flat fee of 1.99 on both legs.
WorkedExample ==
    /\ Ended("compute_target")
    /\ args.fee_mode = "flat" /\ args.flat_fee = Rat(199, 100)
    /\ args.entry_price = RInt(100) /\ args.investment_amt = RInt(100)
    /\ args.gross_target_pct = Rat(45, 1000)

\* C17 as the specification states it: the worked example buys 0.9801 shares
\* and returns a target price that is 108.10 to the cent.
C17_StatedExample ==
    WorkedExample
    => /\ StatedShares = Rat(9801, 10000)
       /\ ret.raised = "none"
       /\ 1080950 <= ret.value /\ ret.value <= 1081050

\* C17, amended: the worked example buys 0.9801 shares and returns
\* (100 * 1.045 + 1.99) / 0.9801 = 108.6522.
C17_WorkedExample ==
    WorkedExample
    => /\ StatedShares = Rat(9801, 10000)
       /\ ret = Returned(1086522)

\* The worked example has been computed: the amount to bring in is 106.49
\* and the call has returned.
C17_Witness ==
    /\ WorkedExample
    /\ ret.raised = "none"
    /\ RAdd(RMul(args.investment_amt, OnePlus(args.gross_target_pct)), args.flat_fee)
         = Rat(10649, 100)

\* compute_target called again with the entry price e, every other argument
\* as in the call of the state.
TargetAtEntry(e) ==
    compute_target(e, args.investment_amt, args.gross_target_pct,
                   args.flat_fee, args.pct_fee, args.fee_mode, half)

\* target / entry_price of the call of the state, before the rounding.
TargetRatio ==
    RDiv(target_price(args.entry_price, args.investment_amt, args.gross_target_pct,
                      args.flat_fee, args.pct_fee, args.fee_mode),
         args.entry_price)

\* C18: for fixed investment_amount, gross_target_pct and fees, with the
\* investment greater than the buy fee, compute_target(entry_price) /
\* entry_price is one constant k for every positive entry_price, up to the
\* rounding: every other positive entry price e gets round(k * e, 4), and
\* its unrounded target is exactly k * e.
C18_ScaleInvariant ==
    (Ended("compute_target") /\ args.entry_price[1] > 0
     /\ RLt(StatedBuyFee, args.investment_amt))
    => \A e \in EntryPrices :
         e[1] > 0
         => /\ TargetAtEntry(e) = Returned(RoundSide(RMul(TargetRatio, e), 4, half))
            /\ target_price(e, args.investment_amt, args.gross_target_pct,
                            args.flat_fee, args.pct_fee, args.fee_mode)
                 = RMul(TargetRatio, e)

\* compute_target(50, 100, 0.045, 1.99) has returned 54.3261, half of the
\* target of the entry price 100 up to the rounding.
C18_Witness ==
    /\ Ended("compute_target")
    /\ args.fee_mode = "flat" /\ args.flat_fee = Rat(199, 100)
    /\ args.entry_price = RInt(50) /\ args.investment_amt = RInt(100)
    /\ args.gross_target_pct = Rat(45, 1000)
    /\ ret = Returned(543261)
    /\ TargetAtEntry(RInt(100)) = Returned(1086522)

\* C15: with breakeven_pct = compute_breakeven(inv, fees) and
\* qty = (inv - buy_fee) / entry, selling at
\* compute_target(entry, inv, breakeven_pct, fees) gives a compute_net_gain of
\* about 0 (within 5 cents), for every positive entry price and every inv
\* greater than the buy fee; breakeven_pct is taken as returned (a
\* percentage) or as the fraction it stands for.
C15_BreakevenConsistency ==
    Ended("compute_net_gain")
    => \A inv \in Investments :
         (/\ RLt(BuyFee(inv, args.flat_fee, args.pct_fee, args.fee_mode), inv)
          /\ args.qty = Shares(args.entry_price, inv, args.flat_fee, args.pct_fee, args.fee_mode)
          /\ \E g \in {BreakevenFraction(inv, args.flat_fee, args.fee_mode, args.pct_fee),
                       BreakevenPercent(inv, args.flat_fee, args.fee_mode, args.pct_fee)} :
               args.exit_price
                 = Rat(compute_target(args.entry_price, inv, g, args.flat_fee,
                                      args.pct_fee, args.fee_mode, half).value, 10000))
         => Abs(ret.value) <= 5

(***************************************************************************)
(* More claims about run_backtest, checked under Spec.                     *)
(***************************************************************************)
\* Every close of every ticker within the backtest window (from the first
\* retained date on) is the ticker's close of the first retained date, a
\* positive one.
FlatWindow ==
    \A t \in DOMAIN closes :
        \A d \in DOMAIN closes[t] :
            d >= dates[1] => closes[t][d] = closes[t][dates[1]] /\ closes[t][d] > 0

\* C16: when every ticker's close is constant over the backtest window, in
\* flat fee mode with flat_fee > 0, gross_target_pct >= 0 and
\* investment > flat_fee, every simulated trade exits on the last date of
\* its cycle with the outcome "cycle-end stop", and its net P&L is
\* -2 * flat_fee.
C16_FlatPrices ==
    (Looping /\ params.fee_mode = "flat" /\ FlatWindow
     /\ params.flat_fee[1] > 0 /\ params.gross_target_pct[1] >= 0
     /\ RLt(params.flat_fee, params.investment_amt))
    => \A i \in 1..Len(trade_log) :
         /\ trade_log[i].outcome = "stopped"
         /\ trade_log[i].sell_date = CycleEnd(trade_log[i].buy_date)
         /\ trade_log[i].pnl \in Rounds(RMul(RInt(-2), params.flat_fee), 2)

\* A flat-fee backtest of two tickers with constant closes has ended with
\* four trades, the last of them a cycle-end stop losing 3.98.
C16_Witness ==
    /\ pc = "done" /\ result.kind = "ok"
    /\ params.fee_mode = "flat" /\ FlatWindow
    /\ Len(trade_log) = 4
    /\ trade_log[4].outcome = "stopped" /\ trade_log[4].pnl = -398

\* The indices (from 0) of the cycle a trade belongs to: from the index of
\* its buy date, interval_days indices.
CycleIndices(tr) ==
    (DateIndex(tr.buy_date) - 1)..(DateIndex(tr.buy_date) + params.interval_days - 2)

\* C20: the cycles of run_backtest are consecutive and do not overlap.
\* Cycle k starts at the date of index k * interval_days and ends at index
\* k * interval_days + interval_days - 1: every trade is bought on the start
\* date of a cycle and sold within it, the cycles of two trades are the same
\* or have no date in common, and the cycles are run in increasing order
\* from index 0 with none left out before the one being run.
C20_ConsecutiveCycles ==
    Looping =>
    /\ ci % params.interval_days = 0
    /\ \A i \in 1..Len(trade_log) :
         LET tr == trade_log[i]
             k0 == DateIndex(tr.buy_date) - 1
         IN  /\ tr.buy_date \in {dates[k] : k \in 1..Len(dates)}
             /\ k0 % params.interval_days = 0
             /\ k0 + params.interval_days - 1 <= Len(dates) - 1
             /\ tr.buy_date <= tr.sell_date
             /\ tr.sell_date <= dates[k0 + params.interval_days]
             /\ k0 < ci \/ (k0 = ci /\ pc = "cycle")
             /\ \A j \in 1..Len(trade_log) :
                  \/ trade_log[j].buy_date = tr.buy_date
                  \/ CycleIndices(trade_log[j]) \cap CycleIndices(tr) = {}
    /\ \A c \in 0..(ci - 1) :
         (c % params.interval_days = 0
          /\ \E t \in DOMAIN closes : ~Degenerate(closes[t], dates[c + 1]))
         => \E i \in 1..Len(trade_log) : trade_log[i].buy_date = dates[c + 1]

\* With interval_days = 2 a ticker was bought on the first retained date and
\* sold at the end of that cycle, the second retained date, then bought
\* again on the third.
C20_Witness ==
    /\ Looping /\ params.interval_days = 2 /\ Len(dates) = MaxDates
    /\ \E i, j \in 1..Len(trade_log) :
         /\ trade_log[i].ticker = trade_log[j].ticker
         /\ trade_log[i].buy_date = dates[1] /\ trade_log[i].sell_date = dates[2]
         /\ trade_log[i].outcome = "stopped"
         /\ trade_log[j].buy_date = dates[3]

(***************************************************************************)
(* Claims about compute_scores, checked under SpecFn.                      *)
(***************************************************************************)
\* The rows of the frame compute_scores returned.
Ranked == ret.value.rows

RankedTickers == {Ranked[i].ticker : i \in 1..Len(Ranked)}

InUnit(x) == 0 <= x[1] /\ x[1] <= x[2]

\* C11: for every candidate compute_scores returns, the composite score is
\* 100 * (0.35 * norm_relative_return + 0.30 * norm_momentum
\* + 0.20 * norm_stability + 0.15 * norm_liquidity) rounded to 1 decimal, the
\* four normalized factors are in [0, 1] and the score is in [0, 100].
C11_CompositeFormula ==
    Ended("compute_scores")
    => \A i \in 1..Len(Ranked) :
         LET r == Ranked[i]
         IN  /\ \E h \in Halves :
                   r.score = RoundWeighted(<<350, 300, 200, 150>>,
                                           <<r.norm_ret, r.norm_mom, r.norm_stab,
                                             r.norm_liq>>, h)
             /\ InUnit(r.norm_ret) /\ InUnit(r.norm_mom)
             /\ InUnit(r.norm_stab) /\ InUnit(r.norm_liq)
             /\ 0 <= r.score /\ r.score <= 1000

\* A candidate was returned with the normalized factors 2/3, 2/3, 5/11 and
\* 101/219 and the score 59.3 (the exact composite is 59.342..).
C11_Witness ==
    /\ Ended("compute_scores")
    /\ \E i \in 1..Len(Ranked) :
         /\ Ranked[i].norm_ret = Rat(2, 3) /\ Ranked[i].norm_mom = Rat(2, 3)
         /\ Ranked[i].norm_stab = Rat(5, 11) /\ Ranked[i].norm_liq = Rat(101, 219)
         /\ Ranked[i].score = 593

\* The scored rows of every instrument that survived the filter: the lists
\* the roundings allow.
Survivors ==
    UNION {Scored(rows) : rows \in ScanAll(args.frames, args.cac, args.investment,
                                           args.gross_target_pct, args.fee)}

\* C12: compute_scores returns at most 5 candidates (all of them when at
\* most 5 survive), in non-increasing order of composite score, and no
\* surviving candidate left out has a score strictly greater than a
\* returned one.
C12_TopFive ==
    Ended("compute_scores")
    => \E all \in Survivors :
       /\ Len(Ranked) <= 5
       /\ Len(Ranked) = Min(5, Len(all))
       /\ \A i, j \in 1..Len(Ranked) : i < j => Ranked[i].score >= Ranked[j].score
       /\ \A i, j \in 1..Len(Ranked) : i # j => Ranked[i].ticker # Ranked[j].ticker
       /\ \A i \in 1..Len(Ranked) : \E k \in 1..Len(all) : all[k] = Ranked[i]
       /\ \A k \in 1..Len(all) :
            all[k].ticker \notin RankedTickers
            => \A i \in 1..Len(Ranked) : all[k].score <= Ranked[i].score

\* Six instruments survived; five were returned, and the one left out has a
\* score below the lowest of them.
C12_Witness ==
    /\ Ended("compute_scores")
    /\ Len(Ranked) = 5
    /\ \E all \in Survivors :
         /\ Len(all) = 6
         /\ \E k \in 1..Len(all) :
              /\ all[k].ticker \notin RankedTickers
              /\ all[k].score < Ranked[5].score

\* The usable closes of a frame: the cells of its Close column that are
\* numbers.
UsableCount(df) == Cardinality({i \in DOMAIN df.Close : df.Close[i] # NaN})

\* The benchmark can be used: it is absent (its return is then 0), or it has
\* more than one row, a usable close, and its first usable close is not 0.
BenchmarkSound(cac) ==
    \/ cac.rows = 0 \/ "Close" \notin cac.columns
    \/ /\ cac.rows > 1
       /\ \E i \in DOMAIN cac.Close :
            /\ cac.Close[i] # NaN /\ cac.Close[i] # 0
            /\ \A j \in 1..(i - 1) : cac.Close[j] = NaN

\* An instrument is eligible: it has a frame with a Close column, at least
\* 60 usable closes, and its factors can be computed without an exception
\* (no division by a close of 0).
Eligible(df) ==
    /\ ~df.none /\ "Close" \in df.columns
    /\ UsableCount(df) >= 60
    /\ LET close == dropna(df.Close)
       IN  /\ close[1] # 0 /\ close[Len(close)] # 0
           /\ close[MomentumBase(Len(close))] # 0
    /\ BenchmarkSound(args.cac)

EligibleFrames == {i \in 1..Len(args.frames) : Eligible(args.frames[i])}

\* The raw factors of the instruments of `frames`, one row each: the lists
\* the roundings allow.
RECURSIVE RawFactorsOf(_)
RawFactorsOf(frames) ==
    IF frames = <<>> THEN {<<>>}
    ELSE {<<r>> \o rest :
            r \in FactorRows(Head(frames), dropna(Head(frames).Close), args.cac,
                             args.investment, args.gross_target_pct, args.fee),
            rest \in RawFactorsOf(Tail(frames))}

\* The raw factors of the eligible instruments.
RawFactors == RawFactorsOf(SelectSeq(args.frames, Eligible))

\* A raw value normalized over the values vals of the eligible instruments
\* only: (v - min) / (max - min), or 0.5 when they all have the same value.
OverEligible(v, vals) ==
    IF SetMax(vals) = SetMin(vals) THEN Rat(1, 2)
    ELSE Rat(v - SetMin(vals), SetMax(vals) - SetMin(vals))

\* The same normalisation of a liquidity, over a set of fractions.
OverEligibleFractions(v, vals) ==
    LET lo == CHOOSE x \in vals : \A y \in vals : RLe(x, y)
        hi == CHOOSE x \in vals : \A y \in vals : RLe(y, x)
    IN  IF lo = hi THEN Rat(1, 2) ELSE RDiv(RSub(v, lo), RSub(hi, lo))

\* C13: an instrument with fewer than 60 usable closes, or whose history is
\* malformed (no frame, no Close column, cells that are not numbers, an
\* exception while its factors are computed), is left out without
\* compute_scores raising; every eligible instrument is scored (it is
\* returned, or five eligible ones are), and the factors of the returned
\* ones are normalized over the eligible instruments only.
C13_BadInstrumentSkipped ==
    Ended("compute_scores")
    => \A elig \in {EligibleFrames} :
       /\ ret.raised = "none"
       /\ RankedTickers \subseteq {args.frames[i].ticker : i \in elig}
       /\ Len(Ranked) = Min(5, Cardinality(elig))
       /\ Len(Ranked) > 0 =>
            \E raw \in RawFactors :
            \A rets \in {{raw[i].ret_12m : i \in DOMAIN raw}} :
            \A moms \in {{raw[i].mom_3m : i \in DOMAIN raw}} :
            \A stabs \in {{raw[i].stability : i \in DOMAIN raw}} :
            \A liqs \in {{raw[i].liquidity : i \in DOMAIN raw}} :
            \A i \in 1..Len(Ranked) :
                /\ Ranked[i].norm_ret = OverEligible(Ranked[i].ret_12m, rets)
                /\ Ranked[i].norm_mom = OverEligible(Ranked[i].mom_3m, moms)
                /\ Ranked[i].norm_stab = OverEligible(Ranked[i].stability, stabs)
                /\ Ranked[i].norm_liq = OverEligibleFractions(Ranked[i].liquidity, liqs)

\* The first instrument has 62 rows of which only 59 closes are usable: it
\* was left out and the five others were returned.
C13_Witness ==
    /\ Ended("compute_scores")
    /\ args.frames # <<>>
    /\ args.frames[1].rows = 62 /\ UsableCount(args.frames[1]) = 59
    /\ Len(Ranked) = 5
    /\ args.frames[1].ticker \notin RankedTickers

\* C19: when no instrument survives the filter, compute_scores returns,
\* without raising, an explicit error value (a value with an "error" field,
\* as run_backtest returns) and not a frame without rows, which is what an
\* empty ranking is.
C19_ExplicitNoResult ==
    (Ended("compute_scores") /\ EligibleFrames = {})
    => /\ ret.raised = "none"
       /\ "error" \in DOMAIN ret.value
       /\ "rows" \notin DOMAIN ret.value

(***************************************************************************)
(* Claims about the cycles of run_backtest, checked under Spec.            *)
(***************************************************************************)
\* The dates, from the cutoff on, that every series with a Close column
\* holds.
StatedCommonDates ==
    {d \in 1..MaxDates : d >= cutoff /\ \A i \in StatedFrames : d \in DOMAIN data[i].close}

\* Every ticker has a positive close on every retained common date: no
\* trade is given up.
EntriesPositive ==
    \A i \in StatedFrames : \A d \in StatedCommonDates : data[i].close[d] > 0

\* C21: every retained common date belongs to some simulated cycle.  When
\* no trade is given up and the loops are over, every retained date lies
\* between the buy date of some trade and the end of that trade's cycle
\* (interval_days - 1 retained dates later, clamped to the last retained
\* date): the leftover dates form a last, shorter cycle, and the last full
\* cycle is simulated.
C21_EveryDateInCycle ==
    (pc = "done" /\ dates # <<>> /\ EntriesPositive)
    => \A k \in 1..Len(dates) :
         \E i \in 1..Len(trade_log) :
            /\ trade_log[i].buy_date <= dates[k]
            /\ dates[k] <= CycleEnd(trade_log[i].buy_date)

\* C22: whenever at least interval_days retained dates are common to all
\* tickers (exactly interval_days included) and every entry price is
\* positive, run_backtest returns a successful result that holds one trade
\* per ticker bought on the first retained date.
C22_OneFullCycle ==
    (pc = "done" /\ StatedFrames # {} /\ EntriesPositive
     /\ StatedCommonCount >= params.interval_days)
    => /\ result.kind = "ok"
       /\ \A i \in StatedFrames :
            \E k \in 1..Len(trade_log) :
               /\ trade_log[k].ticker = data[i].ticker
               /\ \A d \in StatedCommonDates : trade_log[k].buy_date <= d

\* The entry price of a trade of the log.
EntryOf(tr) == closes[tr.ticker][tr.buy_date]

\* The share count the target price of the trade was computed with:
\* (investment - buy_fee) / entry price, the buy fee being flat_fee in flat
\* mode and investment x pct_fee in percentage mode.
TargetShares(tr) ==
    Shares(RInt(EntryOf(tr)), params.investment_amt, params.flat_fee, DefaultPctFee,
           params.fee_mode)

\* C23: in both fee modes the share count of a trade's net P&L equals
\* (investment - buy_fee) / entry_price with the buy fee compute_target
\* used for the trade's target price, and the P&L of the trade log is the
\* net gain of that share count.
C23_SharesMatchTarget ==
    Looping =>
    \A i \in 1..Len(trade_log) :
        LET tr == trade_log[i]
        IN  /\ qty(params, EntryOf(tr)) = TargetShares(tr)
            /\ \E h \in Halves :
                  tr.pnl = compute_net_gain(RInt(EntryOf(tr)),
                                            RInt(closes[tr.ticker][tr.sell_date]),
                                            TargetShares(tr), params.flat_fee,
                                            params.fee_mode, DefaultPctFee, h)

\* The orders in which n trades can be taken.
Orders(n) == {f \in [1..n -> 1..n] : \A a, b \in 1..n : f[a] = f[b] => a = b}

\* The net P&L of the first k trades of the log taken in the order f.
RECURSIVE PnlUpTo(_, _, _)
PnlUpTo(log, f, k) == IF k = 0 THEN 0 ELSE PnlUpTo(log, f, k - 1) + log[f[k]].pnl

\* C24: the returned equity curve has one point per trade, its points are in
\* non-decreasing order of exit date, and the cumulative value of each point
\* is the sum of the net P&L of the trades up to and including that point
\* in that order: the trades can be matched to the points, exit date for
\* date, so that every point carries the running total.
C24_EquityCurve ==
    result.kind = "ok" =>
    LET curve == result.equity_curve
        log   == result.trades_df
    IN  /\ Len(curve) = Len(log)
        /\ \A k \in 1..(Len(curve) - 1) : curve[k].date <= curve[k + 1].date
        /\ \E f \in Orders(Len(log)) :
              \A k \in 1..Len(log) :
                 /\ log[f[k]].sell_date = curve[k].date
                 /\ curve[k].pnl_cumul = PnlUpTo(log, f, k)

\* The retained dates, as a set.
RetainedSet == {dates[k] : k \in 1..Len(dates)}

\* C27: every recorded trade exits on one of the retained dates common to
\* all tickers, within its own cycle, from the cycle's start to its end; a
\* close of the ticker on a date that another ticker lacks never triggers a
\* target hit.
C27_ExitOnCommonDate ==
    Looping =>
    \A i \in 1..Len(trade_log) :
        /\ trade_log[i].sell_date \in RetainedSet
        /\ trade_log[i].buy_date <= trade_log[i].sell_date
        /\ trade_log[i].sell_date <= CycleEnd(trade_log[i].buy_date)

\* C28: in flat fee mode, with investment > flat_fee and gross_target_pct
\* > 0, every trade whose outcome is "target hit" has a net P&L of at least
\* investment x gross_target_pct, up to the cent the P&L is rounded to, and
\* so a strictly positive one.
C28_HitIsProfitable ==
    (/\ Looping
     /\ params.fee_mode = "flat"
     /\ RLt(params.flat_fee, params.investment_amt)
     /\ RLt(RInt(0), params.gross_target_pct))
    => \A i \in 1..Len(trade_log) :
          trade_log[i].outcome = "target_hit"
          => /\ RLe(RMul(RMul(params.investment_amt, params.gross_target_pct), RInt(100)),
                    RInt(trade_log[i].pnl + 1))
             /\ trade_log[i].pnl > 0

\* In flat mode a trade bought at 100 has hit its target of 108.65 at the
\* first close of 110, for a net P&L of 5.82, above the 4.50 aimed at.
C28_Witness ==
    /\ Looping
    /\ params.fee_mode = "flat"
    /\ \E i \in 1..Len(trade_log) :
         /\ trade_log[i].outcome = "target_hit"
         /\ trade_log[i].buy_price = 10000 /\ trade_log[i].target = 10865
         /\ trade_log[i].sell_price = 11000
         /\ trade_log[i].pnl = 582

(***************************************************************************)
(* Claims about the factors of compute_scores, checked under SpecFn.       *)
(*                                                                         *)
(* The histories are daily and end on the same session, the latest one: a  *)
(* frame of n rows covers the last n sessions, and the window of the       *)
(* benchmark that is identical to it is made of the benchmark's last n     *)
(* rows.                                                                   *)
(***************************************************************************)
\* The frame of the universe a returned row was computed from.
FrameOf(r) ==
    args.frames[CHOOSE i \in 1..Len(args.frames) : args.frames[i].ticker = r.ticker]

\* The usable closes of the benchmark over the last n sessions.
BenchmarkWindow(cac, n) ==
    dropna(SubSeq(cac.Close, Len(cac.Close) - n + 1, Len(cac.Close)))

\* last / first - 1 of a series of closes.
StatedReturn(close) == RSub(Rat(close[Len(close)], close[1]), RInt(1))

\* C25: for every scored instrument the relative 12-month return is
\* (last close / first close - 1) of the instrument minus the same ratio of
\* the benchmark over the identical window, the sessions the instrument's
\* history covers, also when that history is shorter than the benchmark's.
C25_RelativeReturnWindow ==
    (/\ Ended("compute_scores")
     /\ args.cac.rows > 0 /\ "Close" \in args.cac.columns)
    => \A i \in 1..Len(Ranked) :
         \A df \in {FrameOf(Ranked[i])} :
            df.rows <= args.cac.rows
            => Ranked[i].ret_12m \in
                 Rounds(RMul(RSub(StatedReturn(dropna(df.Close)),
                                  StatedReturn(BenchmarkWindow(args.cac, df.rows))),
                             RInt(100)), 2)

\* The close the momentum is said to start from: the observation 63
\* sessions before the latest one, or the earliest one when there are not
\* more than 63 observations.
StatedBase(close) ==
    IF Len(close) > MomentumSessions THEN close[Len(close) - MomentumSessions]
    ELSE close[1]

\* C26: for every scored instrument with n close observations the 3-month
\* momentum is last close / base close - 1, the base close being the
\* observation exactly 63 trading sessions before the latest one when
\* n > 63 and the earliest observation otherwise.
C26_MomentumBase ==
    Ended("compute_scores")
    => \A i \in 1..Len(Ranked) :
         \A close \in {dropna(FrameOf(Ranked[i]).Close)} :
            Ranked[i].mom_3m \in
               Rounds(RMul(RSub(Rat(close[Len(close)], StatedBase(close)), RInt(1)),
                           RInt(100)), 2)

\* The benchmark is unavailable: an empty frame, no Close column, or no
\* usable close.
BenchmarkUnavailable(cac) ==
    cac.rows = 0 \/ "Close" \notin cac.columns \/ dropna(cac.Close) = <<>>

\* The instruments that can be scored whatever the benchmark: a frame with
\* a Close column, at least 60 usable closes, and no close of 0 where a
\* factor divides.
Scorable(df) ==
    /\ ~df.none /\ "Close" \in df.columns
    /\ UsableCount(df) >= MinObservations
    /\ LET close == dropna(df.Close)
       IN  /\ close[1] # 0 /\ close[Len(close)] # 0
           /\ close[MomentumBase(Len(close))] # 0

ScorableFrames == {i \in 1..Len(args.frames) : Scorable(args.frames[i])}

\* C29: when the benchmark is unavailable compute_scores still scores every
\* eligible instrument (it is returned, or five eligible ones are), with a
\* benchmark return of 0: the relative return is the instrument's raw
\* return.  A bad benchmark never empties the ranking.
C29_BenchmarkFallback ==
    (Ended("compute_scores") /\ BenchmarkUnavailable(args.cac))
    => \A sc \in {ScorableFrames} :
       /\ ret.raised = "none"
       /\ Len(Ranked) = Min(TopN, Cardinality(sc))
       /\ \A i \in 1..Len(Ranked) :
            Ranked[i].ret_12m \in
               Rounds(RMul(StatedReturn(dropna(FrameOf(Ranked[i]).Close)), RInt(100)), 2)

(***************************************************************************)
(* src/database/db.py: init_db, get_setting, set_setting                   *)
(*                                                                         *)
(* The settings table maps a key (TEXT PRIMARY KEY) to a row [value,       *)
(* updated_at]; datetime('now') is the number of the call that wrote the   *)
(* row.  A Python value is a record [type, s, n, d]: the str s, the int n, *)
(* or the float n / 10^d, a decimal of a few digits whose repr() is that   *)
(* decimal; None has the type "NoneType".  The tables trades and           *)
(* recommendations, which init_db also creates, hold no setting and are    *)
(* left out.                                                               *)
(***************************************************************************)
MaxCalls == 4     \* number of calls made on the store

PyStr(s) == [type |-> "str", s |-> s, n |-> 0, d |-> 0]

PyInt(n) == [type |-> "int", s |-> "", n |-> n, d |-> 0]

PyFloat(n, d) == [type |-> "float", s |-> "", n |-> n, d |-> d]

PyNone == [type |-> "NoneType", s |-> "", n |-> 0, d |-> 0]

Digit(k) == <<"0", "1", "2", "3", "4", "5", "6", "7", "8", "9">>[k + 1]

\* str() of a non-negative int.
RECURSIVE IntStr(_)
IntStr(n) == IF n < 10 THEN Digit(n) ELSE IntStr(n \div 10) \o Digit(n % 10)

\* The last `width` digits of n.
RECURSIVE Padded(_, _)
Padded(n, width) ==
    IF width = 0 THEN "" ELSE Padded(n \div 10, width - 1) \o Digit(n % 10)

\* Line 89: str(value).  A float always shows a decimal point: str(100.0)
\* is "100.0".
str(value) ==
    IF value.type = "str" THEN value.s
    ELSE IF value.type = "int" THEN IntStr(value.n)
    ELSE IF value.type = "NoneType" THEN "None"
    ELSE IF value.d = 0 THEN IntStr(value.n) \o ".0"
    ELSE IntStr(value.n \div Pow10(value.d)) \o "." \o Padded(value.n % Pow10(value.d), value.d)

\* Lines 60-68.
defaults ==
    [flat_fee         |-> "1.99",
     pct_fee          |-> "0.005",
     fee_mode         |-> "flat",
     net_target_pct   |-> "0.03",
     gross_target_pct |-> "0.045",
     interval_days    |-> "14",
     investment_amt   |-> "100"]

\* A bug init_db could have: INSERT OR REPLACE for INSERT OR IGNORE, every
\* page load putting the defaults back.
init_db_defaults_replace(db, now) ==
    [exists |-> TRUE,
     rows   |-> [k \in DOMAIN db.rows \cup DOMAIN defaults |->
                    IF k \in DOMAIN defaults
                    THEN [value |-> defaults[k], updated_at |-> now]
                    ELSE db.rows[k]]]

\* Lines 21-57: executescript runs CREATE TABLE IF NOT EXISTS and commits
\* it: the settings table exists from then on, with the rows it had.
init_db_tables(db) == [exists |-> TRUE, rows |-> db.rows]

\* Lines 59-72: INSERT OR IGNORE of every default, committed together by
\* line 72, in a transaction of its own: a key that has a row keeps it.
init_db_defaults(db, now) ==
    [exists |-> TRUE,
     rows   |-> [k \in DOMAIN db.rows \cup DOMAIN defaults |->
                    IF k \in DOMAIN db.rows THEN db.rows[k]
                    ELSE [value |-> defaults[k], updated_at |-> now]]]

\* Lines 78-82.  Without the table the SELECT raises
\* sqlite3.OperationalError (no such table: settings).
get_setting(db, key, default) ==
    IF ~db.exists THEN Raised("OperationalError")
    ELSE IF key \in DOMAIN db.rows THEN Returned(PyStr(db.rows[key].value))
    ELSE Returned(default)

\* Lines 85-92: INSERT OR REPLACE of the row of the key; the table after the
\* call.  Without the table the INSERT raises and nothing is written.
set_setting(db, key, value, now) ==
    IF ~db.exists THEN db
    ELSE [exists |-> TRUE,
          rows   |-> [k \in DOMAIN db.rows \cup {key} |->
                         IF k = key THEN [value |-> str(value), updated_at |-> now]
                         ELSE db.rows[k]]]

\* ---- the inputs ----
\* Two keys that have a default and one that has none.
SettingKeys == {"interval_days", "fee_mode", "theme"}

\* What the settings page saves: an int, a str, a float.
SettingValues == {PyInt(21), PyStr("pct"), PyFloat(1000, 1)}

\* The defaults the callers pass to get_setting for a key: none (the
\* parameter's own default, None: pages/5_Parametres.py:135-139), or the
\* string init_db stores for it (pages/5_Parametres.py:25-31).
CallerDefaults(key) ==
    {PyNone} \cup (IF key \in DOMAIN defaults THEN {PyStr(defaults[key])} ELSE {})

\* The store rounds nothing.
InitDb ==
    /\ BtIdle
    /\ FnIdle
    /\ DbIdle
    /\ half = "down"

\* The calls come from the pages of several sessions, each on a connection
\* of its own.  get_setting and set_setting are one statement each and take
\* effect at once; init_db takes effect twice, when line 21 commits the
\* tables and when line 72 commits the defaults, and the calls of other
\* sessions can fall in between, as they can between that commit and the
\* return of init_db (line 73).  db_calls holds the calls in the order they
\* took effect (an init_db where it created the tables), each with its
\* result.  An init_db, pending until it returns, also has `stored`, the
\* length of db_calls when it committed the defaults (0 before), and `done`,
\* the length of db_calls when it returned (0 before).

\* Lines 17-57: init_db is called and creates the tables.
Call_init_db ==
    /\ Len(db_calls) < MaxCalls
    /\ settings' = init_db_tables(settings)
    /\ db_calls' = Append(db_calls, [op |-> "init_db", key |-> "", value |-> PyNone,
                                     ret |-> [raised |-> "pending", value |-> PyNone],
                                     stored |-> 0, done |-> 0])
    /\ UNCHANGED <<btVars, fnVars, half>>

\* Lines 59-72: a call of init_db that has created the tables inserts the
\* defaults and commits them: the other sessions see them from then on.
\* (The rows are written under the lock of the store, which a writer of
\* another session waits for.)
Commit_init_db ==
    /\ \E j \in 1..Len(db_calls) :
         /\ db_calls[j].op = "init_db" /\ db_calls[j].stored = 0
         /\ settings' = init_db_defaults(settings, j)
         /\ db_calls' = [db_calls EXCEPT ![j].stored = Len(db_calls)]
    /\ UNCHANGED <<btVars, fnVars, half>>

\* Line 73: a call of init_db that has committed the defaults closes its
\* connection and returns.
Return_init_db ==
    /\ \E j \in 1..Len(db_calls) :
         /\ db_calls[j].op = "init_db" /\ db_calls[j].stored # 0
         /\ db_calls[j].ret.raised = "pending"
         /\ db_calls' = [db_calls EXCEPT ![j].ret = Returned(PyNone),
                                         ![j].done = Len(db_calls)]
    /\ UNCHANGED <<btVars, fnVars, settings, half>>

Call_set_setting ==
    /\ Len(db_calls) < MaxCalls
    /\ \E key \in SettingKeys, value \in SettingValues :
         /\ settings' = set_setting(settings, key, value, Len(db_calls) + 1)
         /\ db_calls' = Append(db_calls,
                               [op |-> "set_setting", key |-> key, value |-> value,
                                ret |-> IF settings.exists THEN Returned(PyNone)
                                        ELSE Raised("OperationalError")])
    /\ UNCHANGED <<btVars, fnVars, half>>

Call_get_setting ==
    /\ Len(db_calls) < MaxCalls
    /\ \E key \in SettingKeys :
       \E default \in CallerDefaults(key) :
         db_calls' = Append(db_calls,
                            [op |-> "get_setting", key |-> key, value |-> default,
                             ret |-> get_setting(settings, key, default)])
    /\ UNCHANGED <<btVars, fnVars, settings, half>>

NextDb ==
    \/ Call_init_db
    \/ Commit_init_db
    \/ Return_init_db
    \/ Call_set_setting
    \/ Call_get_setting

SpecDb == InitDb /\ [][NextDb]_vars

(***************************************************************************)
(* Claims about the settings store, checked under SpecDb.                  *)
(***************************************************************************)
\* The calls of set_setting(key, ..), before call k, that stored a value.
SetsBefore(key, k) ==
    {j \in 1..(k - 1) : /\ db_calls[j].op = "set_setting"
                        /\ db_calls[j].key = key
                        /\ db_calls[j].ret.raised = "none"}

\* A call of init_db created the tables before call k: the settings table
\* exists.
TableBefore(k) == \E j \in 1..(k - 1) : db_calls[j].op = "init_db"

\* A call of init_db committed its defaults before call k took effect: the
\* defaults are stored.
LoadedBefore(k) ==
    \E j \in 1..(k - 1) : /\ db_calls[j].op = "init_db"
                          /\ db_calls[j].stored # 0
                          /\ db_calls[j].stored < k

\* The string form of the value of the most recent set_setting(key, ..)
\* before call k.
LastSet(key, k) == str(db_calls[SetMax(SetsBefore(key, k))].value)

\* The statement as the specification has it, for any sequence of calls:
\* get_setting(key) returns the string form of the value of the most recent
\* set_setting(key, ..), or the built-in default if the key was never set
\* (nothing is said of a key that was never set and has no built-in
\* default).
C30_AnySequence ==
    \A k \in 1..Len(db_calls) :
       LET c == db_calls[k]
       IN  c.op = "get_setting"
           => /\ SetsBefore(c.key, k) # {}
                 => c.ret = Returned(PyStr(LastSet(c.key, k)))
              /\ (SetsBefore(c.key, k) = {} /\ c.key \in DOMAIN defaults)
                 => c.ret = Returned(PyStr(defaults[c.key]))

\* C30: in any sequence of init_db, set_setting and get_setting calls,
\* get_setting(key) returns the string form of the value of the most recent
\* set_setting(key, ..) that stored one; for a key never set it returns the
\* built-in default once a call of init_db has committed its defaults,
\* which it has when it returns, and before that (or for a key without a
\* built-in default) the default its caller passed, None when it passed
\* none.  Before the first init_db has created the table get_setting and
\* set_setting raise sqlite3.OperationalError and nothing is stored.  The
\* table holds exactly these strings: init_db never overwrites a stored
\* value and set_setting changes no other key.
C30_LastSettingWins ==
    /\ \A k \in 1..Len(db_calls) :
         LET c == db_calls[k]
         IN  /\ (c.op = "init_db" /\ c.ret.raised # "pending")
                => /\ c.ret = Returned(PyNone)
                   /\ c.stored # 0 /\ c.stored <= c.done
             /\ c.op = "get_setting"
                => c.ret = IF ~TableBefore(k) THEN Raised("OperationalError")
                           ELSE IF SetsBefore(c.key, k) # {}
                           THEN Returned(PyStr(LastSet(c.key, k)))
                           ELSE IF c.key \in DOMAIN defaults /\ LoadedBefore(k)
                           THEN Returned(PyStr(defaults[c.key]))
                           ELSE Returned(c.value)
             /\ c.op = "set_setting"
                => c.ret = IF TableBefore(k) THEN Returned(PyNone)
                           ELSE Raised("OperationalError")
    /\ settings.exists = TableBefore(Len(db_calls) + 1)
    /\ \A key \in SettingKeys \cup DOMAIN defaults :
         IF SetsBefore(key, Len(db_calls) + 1) # {}
         THEN /\ key \in DOMAIN settings.rows
              /\ settings.rows[key].value = LastSet(key, Len(db_calls) + 1)
         ELSE IF key \in DOMAIN defaults /\ LoadedBefore(Len(db_calls) + 1)
         THEN /\ key \in DOMAIN settings.rows
              /\ settings.rows[key].value = defaults[key]
         ELSE key \notin DOMAIN settings.rows

\* A page was loaded, it saved interval_days = 21, a page was loaded again
\* and get_setting("interval_days") returned "21", the default of the other
\* key being untouched.
C30_Witness ==
    /\ Len(db_calls) = 4
    /\ db_calls[1].op = "init_db" /\ db_calls[1].stored = 1 /\ db_calls[1].done = 1
    /\ db_calls[2].op = "set_setting" /\ db_calls[2].key = "interval_days"
    /\ db_calls[2].value = PyInt(21)
    /\ db_calls[3].op = "init_db" /\ db_calls[3].stored = 3 /\ db_calls[3].done = 3
    /\ db_calls[4].op = "get_setting" /\ db_calls[4].key = "interval_days"
    /\ db_calls[4].ret = Returned(PyStr("21"))
    /\ settings.rows["fee_mode"].value = "flat"

====
